---- MODULE Spec2Model ----
(***************************************************************************)
(* Transport core of poly-fetch: ALPN negotiation and caching, the         *)
(* per-origin connection lock, the hand-over of the negotiated TLS socket  *)
(* to the HTTP/1 or HTTP/2 layer, the HTTP/2 session cache and the reset   *)
(* of a context.                                                           *)
(***************************************************************************)
EXTENDS Integers, Sequences, FiniteSets, TLC

\* ------------------------------------------------------------------ bounds
\* number of logical requests issued in one run
NumReq == 3
\* number of reset() calls issued in one run
MaxReset == 2
\* context option alpnCacheTTL, in clock ticks
AlpnCacheTTL == 1
\* context option alpnCacheSize, in entries
AlpnCacheSize == 2
\* the number of redirect responses one fetch is answered with in one run, and
\* the largest value of the request option follow
MaxFollow == 1
\* the number of streams a server pushes on one session
MaxPush == 2
\* the length of a request body, in characters or bytes
MaxBody == 2

\* ------------------------------------------------------------------ constants
ALPN_HTTP2 == "h2"
ALPN_HTTP2C == "h2c"
ALPN_HTTP1_0 == "http/1.0"
ALPN_HTTP1_1 == "http/1.1"
ALPN_PROTOCOLS == <<ALPN_HTTP2, ALPN_HTTP1_1, ALPN_HTTP1_0>>

\* the value of an absent protocol (undefined / false / '' in the source)
NoProtocol == ""
\* the value of an absent socket or session (undefined / null in the source)
None == 0
\* a response header location that is absent, or relative to the request URL;
\* any other location is the origin of an absolute URL
NoLocation == "null"
Relative == "/"
\* the status codes fetch() takes for a redirect
RedirectStatus == {301, 302, 303, 307, 308}
\* no response / no transport options yet
NoResponse == [status |-> 0, raw |-> NoLocation, location |-> NoLocation,
               counter |-> 0]
NoVia == [status |-> 0, location |-> NoLocation, method |-> "", body |-> "",
          headers |-> {}]
\* no body
NoBody == [kind |-> "none", data |-> <<>>]

\* the characters of a string body, as code points, and the bytes of a Buffer
\* body: 'h', and one from beyond ASCII
Char == {104, 233}

\* the strings and the buffers of up to n elements
Contents(n) == UNION {[1..k -> Char] : k \in 0..n}

NoSent == [method |-> "", body |-> "", headers |-> {}, compress |-> FALSE,
           signal |-> FALSE, wire |-> <<>>]

\* Two contexts: cA is created with h2 options (a push handler) and the
\* default ALPN list, cB is restricted to http/1.1 and has h1 agent options.
Ctx == {"cA", "cB"}
Origin == {"https://a", "http://b", "http2://c"}
Req == 1..NumReq

\* url.protocol of an origin
Scheme(o) ==
  CASE o = "https://a" -> "https:"
    [] o = "http://b" -> "http:"
    [] OTHER -> "http2:"

\* ctx.alpnProtocols, from the context options
alpnProtocols(c) == IF c = "cA" THEN ALPN_PROTOCOLS ELSE <<ALPN_HTTP1_1>>
\* ctx.options.h2 is given
HasH2Options(c) == c = "cA"
\* ctx.options.h1 is given (keepAlive agent options)
HasH1Options(c) == c = "cB"

\* what the TLS peer of an origin supports
ServerProtocols(o) == {ALPN_HTTP2, ALPN_HTTP1_1}

RECURSIVE FirstIn(_, _)
FirstIn(list, set) ==
  IF list = <<>> THEN NoProtocol
  ELSE IF Head(list) \in set THEN Head(list)
  ELSE FirstIn(Tail(list), set)

\* socket.alpnProtocol after the handshake made with ALPNProtocols = list
Negotiate(list, o) == FirstIn(list, ServerProtocols(o))

\* ------------------------------------------------------------------ state
VARIABLES
  req,               \* the logical requests: position and locals of request()
  sockets,           \* TLS sockets made by connectTLS, socket.id = index
  sessions,          \* HTTP/2 sessions ever made by http2.connect
  sessionCache,      \* ctx.h2.sessionCache: origin -> session
  alpnCache,         \* ctx.alpnCache: LRU list of entries, most recent first
  connectionLock,    \* the module-level lock: origin -> locked, released value
  createConnection,  \* ctx.options.h2.createConnection, where options.h2 is given
  h1,                \* ctx.h1: the lazily made agents
  resets             \* the reset() calls made so far

vars == <<req, sockets, sessions, sessionCache, alpnCache, connectionLock,
          createConnection, h1, resets>>

IdleReq ==
  [pc |-> "idle", ctx |-> "cA", origin |-> "https://a", protocol |-> NoProtocol,
   socket |-> None, session |-> None, hit |-> NoProtocol, sawStale |-> FALSE,
   waited |-> FALSE, handed |-> None, opened |-> None, lockErr |-> None, err |-> None,
   httpVersion |-> "",
   signal |-> "none",     \* the caller's AbortSignal: "none", "live" or "aborted"
   listeners |-> {},      \* the 'abort' listeners this fetch has on the signal
   abortedAt |-> "",      \* where the fetch was when the signal fired
   counter |-> 0,         \* req.counter: the redirects followed so far
   created |-> None,      \* the session the latest dispatch connected
   cancelled |-> FALSE,   \* the stream was closed with CANCEL / the socket destroyed
   read |-> "none",       \* the consumer's read of the response body
   redirect |-> "follow", \* req.redirect: "follow", "manual" or "error"
   follow |-> {},         \* the caller's option follow: {} when not given, or {n}
   compress |-> {},       \* the caller's option compress: {} when not given, or {b}
   method |-> "GET",      \* req.method
   body |-> "none",       \* req.body: "none", "buffer" or "stream"
   headers |-> {},        \* the names of the headers of req.headers
   viaRequest |-> FALSE,  \* fetch() was called with a Request and no options
   dispatches |-> 0,      \* the calls of request() this fetch has made
   via |-> NoVia,         \* the redirect response handled last: its status and
                          \* location, and the method, body and headers of the
                          \* request it answered
   payload |-> NoBody,    \* the content of the body the caller gave
   decoder |-> "",        \* the decoder the response body is piped through
   decodeFailed |-> FALSE, \* the decoder has failed
   onError |-> FALSE,     \* the onError callback of the decoder was called
   sent |-> NoSent,       \* what the transport got with the latest dispatch
   response |-> NoResponse, \* the Response fetch() returned
   type |-> ""]           \* the type of the FetchError fetch() threw

\* a settled request: its promise is resolved or rejected, its locals are gone
Settled(q, pc, httpVersion, err) ==
  [q EXCEPT !.pc = pc, !.httpVersion = httpVersion, !.err = err,
            !.protocol = NoProtocol, !.socket = None, !.session = None,
            !.hit = NoProtocol, !.sawStale = FALSE, !.waited = FALSE,
            !.handed = None, !.opened = None, !.sent = NoSent]

Init ==
  /\ req = [r \in Req |-> IdleReq]
  /\ sockets = <<>>
  /\ sessions = <<>>
  /\ sessionCache = [c \in Ctx |-> [o \in Origin |-> None]]
  /\ alpnCache = [c \in Ctx |-> <<>>]
  /\ connectionLock = [o \in Origin |-> [locked |-> FALSE, value |-> None]]
  /\ createConnection = [c \in Ctx |-> None]
  /\ h1 = [c \in Ctx |-> [httpAgent |-> FALSE, httpsAgent |-> FALSE]]
  /\ resets = <<>>

\* ------------------------------------------------------------------ ALPN cache
\* lru-cache: an entry is stale when its age exceeds maxAge
isStale(e) == e.age > AlpnCacheTTL

IndexOf(cache, key) ==
  IF \E i \in 1..Len(cache) : cache[i].key = key
  THEN CHOOSE i \in 1..Len(cache) : cache[i].key = key
  ELSE 0

Without(cache, i) == SubSeq(cache, 1, i - 1) \o SubSeq(cache, i + 1, Len(cache))

\* a get() that takes no account of maxAge: every hit is returned
LRUGetStale(cache, key) ==
  LET i == IndexOf(cache, key) IN
  IF i = 0 THEN [cache |-> cache, value |-> NoProtocol]
  ELSE [cache |-> <<cache[i]>> \o Without(cache, i), value |-> cache[i].value]

\* lru-cache get(): a stale hit is deleted and reported as a miss, a fresh hit
\* becomes the most recently used entry (its age is not renewed)
LRUGet(cache, key) ==
  LET i == IndexOf(cache, key) IN
  IF i = 0 THEN [cache |-> cache, value |-> NoProtocol]
  ELSE IF isStale(cache[i]) THEN [cache |-> Without(cache, i), value |-> NoProtocol]
  ELSE [cache |-> <<cache[i]>> \o Without(cache, i), value |-> cache[i].value]

\* lru-cache trim(): drop entries from the least recently used end
trim(cache) ==
  IF Len(cache) > AlpnCacheSize THEN SubSeq(cache, 1, AlpnCacheSize) ELSE cache

\* lru-cache set(): the entry is (re)written with age 0 at the front
LRUSet(cache, key, value) ==
  LET i == IndexOf(cache, key)
      rest == IF i = 0 THEN cache ELSE Without(cache, i)
  IN trim(<<[key |-> key, value |-> value, age |-> 0]>> \o rest)

\* ------------------------------------------------------------------ lock
\* connectionLock.acquire(key) of a caller that finds the lock free
LockAcquire(lock, o) == [lock EXCEPT ![o].locked = TRUE]
\* connectionLock.release(key, value): the value is what the next waiter gets
LockRelease(lock, o, value) == [lock EXCEPT ![o] = [locked |-> FALSE, value |-> value]]

Waiters(o) == {w \in Req : req[w].pc = "waitLock" /\ req[w].origin = o}

\* ------------------------------------------------------------------ HTTP/2
\* the requests whose stream is open on a session
Streams(s) == {q \in Req : req[q].pc \in {"h2wait", "h2body"} /\ req[q].session = s}

\* A session is "open", then "closed" (close() was called: it ends once its
\* streams are finished) or "destroyed" (destroy(), on an error), then "gone"
\* (its 'close' event was emitted).
\* session.closed: the flag close() sets; destroy() sets session.destroyed only
SessionClosed(s) == sessions[s].state = "closed"

\* a request() that never finds a session to use
ReusesSessionNever(s) == FALSE

\* h2 request(): the cached session is used when there is one and it is not closed
ReusesSession(s) == s # None /\ ~SessionClosed(s)

\* h2 request(): the socket passed along is redundant and is destroyed
RedundantSocket(socket, s) == socket # None /\ socket # sessions[s].socket

\* the createConnection that http2.connect() finds in its options: the one set
\* for this request or, where ctx.options.h2 is given, the one an earlier
\* request left in that object
ConnectSocket(c, socket) ==
  IF socket # None THEN socket
  ELSE IF HasH2Options(c) THEN createConnection[c]
  ELSE None

\* the error session.request() throws on a destroyed session
ERR_HTTP2_INVALID_SESSION == 3 * NumReq + 1

\* h2 request(ctx, url, options) up to session.request(): the session is
\* looked up or made over the socket passed along; socks are the sockets there
\* are when it is called. session.request() throws on a destroyed session.
h2Request(c, o, socket, socks) ==
  LET cached == sessionCache[c][o]
      id == Len(sessions) + 1
      transport == ConnectSocket(c, socket)
  IN
  IF ~ReusesSession(cached)
  THEN [sessions |-> Append(sessions,
          [ctx |-> c, origin |-> o, socket |-> transport, state |-> "open",
           pushed |-> <<>>]),
        sessionCache |-> [sessionCache EXCEPT ![c][o] = id],
        createConnection |->
          IF HasH2Options(c) /\ socket # None
          THEN [createConnection EXCEPT ![c] = socket]
          ELSE createConnection,
        sockets |->
          IF transport # None
          THEN [socks EXCEPT ![transport].owners = @ \cup {[kind |-> "h2", id |-> id]},
                             ![transport].usedDestroyed = @ \/ socks[transport].destroyed]
          ELSE socks,
        session |-> id,
        err |-> None]
  ELSE [sessions |-> sessions,
        sessionCache |-> sessionCache,
        createConnection |-> createConnection,
        sockets |->
          IF RedundantSocket(socket, cached)
          THEN [socks EXCEPT ![socket].destroyed = TRUE]
          ELSE socks,
        session |-> cached,
        err |-> IF sessions[cached].state = "open" THEN None
                ELSE ERR_HTTP2_INVALID_SESSION]

\* ------------------------------------------------------------------ HTTP/1
\* the requests in flight on a socket
Users(id) == {q \in Req : req[q].pc \in {"h1wait", "h1body"} /\ req[q].socket = id}

\* getAgent(): the agent of the scheme is made on first use when ctx.options.h1
\* is given
getAgent(agents, c, o) ==
  IF ~HasH1Options(c) THEN agents
  ELSE IF Scheme(o) = "https:" THEN [agents EXCEPT !.httpsAgent = TRUE]
  ELSE [agents EXCEPT !.httpAgent = TRUE]

\* h1Request(ctx, url, options): the request is sent over the socket passed
\* along (through the agent's createConnection when there is an agent) or over
\* a pooled one; r is the request, socks the sockets there are when it is called
h1Request(r, c, o, socket, socks) ==
  [h1 |-> [h1 EXCEPT ![c] = getAgent(@, c, o)],
   sockets |->
     IF socket # None
     THEN [socks EXCEPT ![socket].owners = @ \cup {[kind |-> "h1", id |-> r]},
                        ![socket].usedDestroyed = @ \/ socks[socket].destroyed,
                        ![socket].agent = IF HasH1Options(c) THEN c ELSE @]
     ELSE socks]

\* ------------------------------------------------------------------ request()
\* the entry of the ALPN cache a lookup may return: present and not expired
FreshProtocol(cache, o) ==
  IF \E i \in 1..Len(cache) : cache[i].key = o /\ cache[i].age <= AlpnCacheTTL
  THEN (CHOOSE e \in {cache[i] : i \in 1..Len(cache)} : e.key = o).value
  ELSE NoProtocol

\* the ALPN cache holds an expired entry for the origin
StaleEntry(cache, o) ==
  \E i \in 1..Len(cache) : cache[i].key = o /\ cache[i].age > AlpnCacheTTL

\* a determineProtocol() that negotiates for https: whatever the cache holds
determineProtocolUncached(cache, o) ==
  LET g == LRUGet(cache, o) IN
  IF Scheme(o) = "https:"
  THEN [cache |-> g.cache, protocol |-> NoProtocol, negotiate |-> TRUE]
  ELSE IF g.value # NoProtocol
  THEN [cache |-> g.cache, protocol |-> g.value, negotiate |-> FALSE]
  ELSE [cache |-> LRUSet(g.cache, o, IF Scheme(o) = "http:" THEN ALPN_HTTP1_1 ELSE ALPN_HTTP2C),
        protocol |-> IF Scheme(o) = "http:" THEN ALPN_HTTP1_1 ELSE ALPN_HTTP2C,
        negotiate |-> FALSE]

\* determineProtocol() up to its first await: the cache lookup and the seeding
\* of the cache for the schemes that need no negotiation
determineProtocol(cache, o) ==
  LET g == LRUGet(cache, o) IN
  IF g.value # NoProtocol
  THEN [cache |-> g.cache, protocol |-> g.value, negotiate |-> FALSE]
  ELSE IF Scheme(o) = "http:"
  THEN [cache |-> LRUSet(g.cache, o, ALPN_HTTP1_1), protocol |-> ALPN_HTTP1_1,
        negotiate |-> FALSE]
  ELSE IF Scheme(o) = "http2:"
  THEN [cache |-> LRUSet(g.cache, o, ALPN_HTTP2C), protocol |-> ALPN_HTTP2C,
        negotiate |-> FALSE]
  ELSE [cache |-> g.cache, protocol |-> NoProtocol, negotiate |-> TRUE]

\* the error fetch() throws for a cancelled request: a RequestAbortedError of
\* the transport becomes an AbortError
AbortError == 3 * NumReq + 2

\* the error a request fails with when the platform's http.request() takes
\* the signal option and sees the signal fired: not a RequestAbortedError, so
\* fetch() wraps it as a system error
PlatformAbortError == 3 * NumReq + 3

\* a FetchError of fetch() itself, with its type
FetchError == 3 * NumReq + 4

\* the options argument of this call of fetch() holds the caller's options:
\* not when the caller passed a Request only, and not when fetch() called
\* itself for a redirect
HasOptions(q) == q.counter = 0 /\ ~q.viaRequest

\* options.signal as the transport sees it: fetch() passes the caller's options
\* on to request(), and its call of itself for a redirect passes none
TransportSignal(q) == IF HasOptions(q) THEN q.signal ELSE "none"

\* JSON.stringify() of a number: its decimal digits
RECURSIVE Decimal(_)
Decimal(n) ==
  IF n < 10 THEN <<48 + n>> ELSE Append(Decimal(n \div 10), 48 + (n % 10))

\* the elements of the 'data' array of a stringified Buffer, joined by commas
RECURSIVE DataArray(_)
DataArray(bytes) ==
  IF bytes = <<>> THEN <<>>
  ELSE IF Len(bytes) = 1 THEN Decimal(bytes[1])
  ELSE Decimal(bytes[1]) \o <<44>> \o DataArray(Tail(bytes))

\* JSON.stringify(buffer): the text {"type":"Buffer","data":[...]}
JSONStringify(bytes) ==
  <<123, 34, 116, 121, 112, 101, 34, 58, 34, 66, 117, 102, 102, 101, 114, 34,
    44, 34, 100, 97, 116, 97, 34, 58, 91>> \o DataArray(bytes) \o <<93, 125>>

\* request(): "some header magic". A body that is an object is replaced by its
\* JSON text; a Buffer is an object, and so is the null fetch() passes for a
\* Request without a body; a string is not.
RequestBody(payload) ==
  IF payload.kind = "buffer"
  THEN [kind |-> "string", data |-> JSONStringify(payload.data)]
  ELSE IF payload.kind = "none"
  THEN [kind |-> "string", data |-> <<110, 117, 108, 108>>]
  ELSE payload

\* the bytes of a string in UTF-8
RECURSIVE Utf8(_)
Utf8(text) ==
  IF text = <<>> THEN <<>>
  ELSE IF text[1] < 128 THEN <<text[1]>> \o Utf8(Tail(text))
  ELSE <<192 + (text[1] \div 64), 128 + (text[1] % 64)>> \o Utf8(Tail(text))

\* the bytes of a body as the caller gave it
Bytes(payload) ==
  IF payload.kind = "string" THEN Utf8(payload.data) ELSE payload.data

\* "send request body?" of the transports: req.write(body) when there is a
\* body that is not empty, then req.end()
Write(body) == IF body.data = <<>> THEN <<>> ELSE Bytes(body)

\* what request() makes of the options fetch() hands it: the options of the
\* call of fetch(), with method, headers and body of the Request, over the
\* defaults of the transport; compress adds an accept-encoding header
Sent(q) ==
  LET compress == IF HasOptions(q) /\ q.compress # {}
                  THEN CHOOSE b \in q.compress : TRUE
                  ELSE TRUE
  IN [method |-> q.method, body |-> q.body,
      headers |-> IF compress THEN q.headers \cup {"accept-encoding"} ELSE q.headers,
      compress |-> compress,
      signal |-> TransportSignal(q) # "none",
      wire |-> Write(RequestBody(q.payload))]

\* fetch() calls request() for the Request q
Dispatched(q) == [q EXCEPT !.dispatches = @ + 1, !.sent = Sent(q)]

\* request() after determineProtocol(): the switch on the protocol and the
\* call of the protocol's request handler, up to the point where the request
\* is on the wire. q is the record of request r with its protocol and socket,
\* socks are the sockets there are.
Dispatch(r, q, socks) ==
  IF q.protocol \in {ALPN_HTTP2, ALPN_HTTP2C}
  THEN LET x == h2Request(q.ctx, q.origin, q.socket, socks)
           signal == TransportSignal(q)
           subscribed == IF signal = "live" THEN q.listeners \cup {"transport"}
                         ELSE q.listeners
           made == IF x.session > Len(sessions) THEN x.session ELSE None
       IN
       /\ sessions' = x.sessions
       /\ sessionCache' = x.sessionCache
       /\ createConnection' = x.createConnection
       /\ sockets' = x.sockets
       /\ req' = [req EXCEPT ![r] =
            IF signal = "aborted"
            THEN Settled([q EXCEPT !.created = made], "failed", "", AbortError)
            ELSE IF x.err = None
            THEN [q EXCEPT !.pc = "h2wait", !.session = x.session,
                           !.created = made, !.listeners = subscribed]
            ELSE Settled([q EXCEPT !.created = made, !.listeners = subscribed],
                         "failed", "", x.err)]
       /\ UNCHANGED h1
  ELSE LET x == h1Request(r, q.ctx, q.origin, q.socket, socks) IN
       /\ h1' = x.h1
       /\ \/ /\ sockets' = x.sockets
             /\ req' = [req EXCEPT ![r] = [q EXCEPT !.pc = "h1wait"]]
          \/ /\ TransportSignal(q) = "aborted"
             /\ sockets' = IF q.socket # None
                           THEN [x.sockets EXCEPT ![q.socket].destroyed = TRUE]
                           ELSE x.sockets
             /\ req' = [req EXCEPT ![r] =
                  Settled([q EXCEPT !.cancelled = TRUE], "failed", "",
                          PlatformAbortError)]
       /\ UNCHANGED <<sessions, sessionCache, createConnection>>

\* request(ctx, uri, options) from its call to its first await: q is the
\* record of request r with its context and origin. determineProtocol() runs
\* up to its first await, which for a cache miss on https: is
\* connectionLock.acquire(); with a protocol from the cache or from the scheme
\* the request is dispatched.
request(r, q) ==
  LET c == q.ctx
      o == q.origin
      d == determineProtocol(alpnCache[c], o)
      base == [q EXCEPT !.hit = FreshProtocol(alpnCache[c], o),
                        !.sawStale = StaleEntry(alpnCache[c], o)]
  IN
     /\ alpnCache' = [alpnCache EXCEPT ![c] = d.cache]
     /\ IF ~d.negotiate
        THEN /\ Dispatch(r, [base EXCEPT !.protocol = d.protocol], sockets)
             /\ UNCHANGED connectionLock
        ELSE IF ~connectionLock[o].locked
        THEN /\ connectionLock' = LockAcquire(connectionLock, o)
             /\ req' = [req EXCEPT ![r] = [base EXCEPT !.pc = "connecting"]]
             /\ UNCHANGED <<sockets, sessions, sessionCache, createConnection, h1>>
        ELSE /\ req' = [req EXCEPT ![r] = [base EXCEPT !.pc = "waitLock",
                                                      !.waited = TRUE]]
             /\ UNCHANGED <<connectionLock, sockets, sessions, sessionCache,
                            createConnection, h1>>

\* fetch(ctx, url, options) is called with a signal that has not fired, or
\* with none, and calls request()
Start(r, c, o) ==
  /\ req[r].pc = "idle"
  /\ \A q \in Req : q < r => req[q].pc # "idle"
  /\ req[r].signal # "aborted"
  /\ \E q \in {Dispatched([req[r] EXCEPT !.ctx = c, !.origin = o])} :
       request(r, q)
  /\ UNCHANGED resets

\* determineProtocol() after connect(): socket.alpnProtocol, with its fallback
ProtocolOf(alpn) == IF alpn = NoProtocol THEN ALPN_HTTP1_1 ELSE alpn

\* a connect() that takes no socket from the lock
UsesHandedSocketNever(value) == FALSE

\* connect(): a caller that got a socket from the lock returns it as its own
UsesHandedSocket(value) == value # None

\* connect() of a waiter: the lock is free again, the waiter acquires it with
\* the value of the last release. With a socket it returns at once, releasing
\* with the same socket, determineProtocol() caches the protocol of that
\* socket and the request is dispatched with it; without one it starts
\* connectTLS().
LockWake(r) ==
  /\ req[r].pc = "waitLock"
  /\ ~connectionLock[req[r].origin].locked
  /\ LET v == connectionLock[req[r].origin].value IN
     IF UsesHandedSocket(v)
     THEN LET p == ProtocolOf(sockets[v].alpnProtocol) IN
          /\ connectionLock' = LockRelease(LockAcquire(connectionLock, req[r].origin),
                                           req[r].origin, v)
          /\ alpnCache' = [alpnCache EXCEPT ![req[r].ctx] = LRUSet(@, req[r].origin, p)]
          /\ Dispatch(r, [req[r] EXCEPT !.socket = v, !.handed = v, !.protocol = p],
                      sockets)
     ELSE /\ req' = [req EXCEPT ![r].pc = "connecting"]
          /\ connectionLock' = LockAcquire(connectionLock, req[r].origin)
          /\ UNCHANGED <<alpnCache, sockets, sessions, sessionCache, createConnection,
                         h1>>
  /\ UNCHANGED resets

\* the error a failed handshake of request r rejects with
TLSErrorOf(r) == r

\* connectTLS(): 'secureConnect'. The socket gets its id, connect() returns it
\* and releases the lock with it, determineProtocol() caches its protocol and
\* the request is dispatched with it.
TLSConnect(r) ==
  /\ req[r].pc = "connecting"
  /\ LET id == Len(sockets) + 1
         alpn == Negotiate(alpnProtocols(req[r].ctx), req[r].origin)
         socket == [origin |-> req[r].origin, ctx |-> req[r].ctx,
                    alpnProtocol |-> alpn, destroyed |-> FALSE, owners |-> {},
                    usedDestroyed |-> FALSE, agent |-> "none"]
     IN
     /\ connectionLock' = LockRelease(connectionLock, req[r].origin, id)
     /\ alpnCache' = [alpnCache EXCEPT ![req[r].ctx] =
                        LRUSet(@, req[r].origin, ProtocolOf(alpn))]
     /\ Dispatch(r, [req[r] EXCEPT !.socket = id, !.opened = id,
                                   !.protocol = ProtocolOf(alpn)],
                 Append(sockets, socket))
  /\ UNCHANGED resets

\* the error determineProtocol() throws for a URL scheme it does not know
UnsupportedProtocolError == 3 * NumReq + 5

\* request() for a URL whose scheme is none of http:, http2:, https:.
\* determineProtocol() looks the origin up in the ALPN cache, finds nothing
\* and throws; the lock is not touched.
UnsupportedProtocol(r, c) ==
  /\ req[r].pc = "idle"
  /\ \A q \in Req : q < r => req[q].pc # "idle"
  /\ req[r].signal # "aborted"
  /\ alpnCache' = [alpnCache EXCEPT ![c] = LRUGet(@, "ftp://d").cache]
  /\ req' = [req EXCEPT ![r] =
       Settled([@ EXCEPT !.ctx = c, !.origin = "ftp://d"], "failed", "",
               UnsupportedProtocolError)]
  /\ UNCHANGED <<sockets, sessions, sessionCache, connectionLock, createConnection,
                 h1, resets>>

\* a connect() without its finally block: the lock stays taken
TLSErrorKeepsLock(r) ==
  /\ req[r].pc = "connecting"
  /\ req' = [req EXCEPT ![r] = Settled(@, "failed", "", TLSErrorOf(r))]
  /\ UNCHANGED <<sockets, sessions, sessionCache, alpnCache, connectionLock,
                 createConnection, h1, resets>>

\* connectTLS(): 'error'. connect() throws, its finally releases the lock
\* with an undefined socket, request() rejects.
TLSError(r) ==
  /\ req[r].pc = "connecting"
  /\ req' = [q \in Req |->
       IF q = r THEN Settled(req[q], "failed", "", TLSErrorOf(r))
       ELSE IF q \in Waiters(req[r].origin)
       THEN [req[q] EXCEPT !.lockErr = TLSErrorOf(r)]
       ELSE req[q]]
  /\ connectionLock' = LockRelease(connectionLock, req[r].origin, None)
  /\ UNCHANGED <<sockets, sessions, sessionCache, alpnCache, createConnection, h1,
                 resets>>

\* ------------------------------------------------------------------ responses
\* the stream's 'response' event: the listener of the transport is removed
\* and the request resolves; the response has no body to wait for
H2Response(r) ==
  /\ req[r].pc = "h2wait"
  /\ req' = [req EXCEPT ![r] =
       Settled([@ EXCEPT !.listeners = @ \ {"transport"}], "done", "2.0", None)]
  /\ UNCHANGED <<sockets, sessions, sessionCache, alpnCache, connectionLock,
                 createConnection, h1, resets>>

\* the response callback: the request resolves; without an agent the
\* connection is not kept alive
H1Response(r) ==
  /\ req[r].pc = "h1wait"
  /\ req[r].socket # None => ~sockets[req[r].socket].destroyed
  /\ req' = [req EXCEPT ![r] = Settled(@, "done", "1.1", None)]
  /\ sockets' =
       IF req[r].socket # None /\ sockets[req[r].socket].agent = "none"
       THEN [sockets EXCEPT ![req[r].socket].destroyed = TRUE]
       ELSE sockets
  /\ UNCHANGED <<sessions, sessionCache, alpnCache, connectionLock,
                 createConnection, h1, resets>>

\* the error of a failed HTTP/1 request
H1ErrorOf(r) == 2 * NumReq + r

\* the request's 'error' event: the request rejects, its socket is destroyed
H1Error(r) ==
  /\ req[r].pc = "h1wait"
  /\ req' = [req EXCEPT ![r] = Settled(@, "failed", "", H1ErrorOf(r))]
  /\ sockets' =
       IF req[r].socket # None
       THEN [sockets EXCEPT ![req[r].socket].destroyed = TRUE]
       ELSE sockets
  /\ UNCHANGED <<sessions, sessionCache, alpnCache, connectionLock,
                 createConnection, h1, resets>>

\* ------------------------------------------------------------------ fetch
\* the caller makes an AbortController and passes its signal to fetch()
WithSignal(r) ==
  /\ req[r].pc = "idle"
  /\ \A q \in Req : q < r => req[q].pc # "idle"
  /\ req[r].signal = "none"
  /\ req' = [req EXCEPT ![r].signal = "live"]
  /\ UNCHANGED <<sockets, sessions, sessionCache, alpnCache, connectionLock,
                 createConnection, h1, resets>>

\* fetch(ctx, url, options) is called with a signal that has fired already:
\* it throws an AbortError before it calls request()
FetchAborted(r, c, o) ==
  /\ req[r].pc = "idle"
  /\ \A q \in Req : q < r => req[q].pc # "idle"
  /\ req[r].signal = "aborted"
  /\ req' = [req EXCEPT ![r] =
       Settled([@ EXCEPT !.ctx = c, !.origin = o], "failed", "", AbortError)]
  /\ UNCHANGED <<sockets, sessions, sessionCache, alpnCache, connectionLock,
                 createConnection, h1, resets>>

\* the stream's 'response' event for a response with a body: the listener of
\* the transport is removed, the request resolves, fetch() subscribes its
\* abortHandler and returns the Response over the stream
H2Headers(r) ==
  /\ req[r].pc = "h2wait"
  /\ req' = [req EXCEPT ![r].pc = "h2body", ![r].httpVersion = "2.0",
                        ![r].response = [status |-> 200, raw |-> NoLocation,
                                         location |-> NoLocation,
                                         counter |-> req[r].counter],
                        ![r].listeners =
                          IF req[r].signal = "none" THEN @ \ {"transport"}
                          ELSE (@ \ {"transport"}) \cup {"fetch"}]
  /\ UNCHANGED <<sockets, sessions, sessionCache, alpnCache, connectionLock,
                 createConnection, h1, resets>>

\* the response callback for a response with a body: the request resolves,
\* fetch() subscribes its abortHandler and returns the Response over the
\* incoming message
H1Headers(r) ==
  /\ req[r].pc = "h1wait"
  /\ req[r].socket # None => ~sockets[req[r].socket].destroyed
  /\ req' = [req EXCEPT ![r].pc = "h1body", ![r].httpVersion = "1.1",
                        ![r].response = [status |-> 200, raw |-> NoLocation,
                                         location |-> NoLocation,
                                         counter |-> req[r].counter],
                        ![r].listeners =
                          IF req[r].signal = "none" THEN @ ELSE @ \cup {"fetch"}]
  /\ UNCHANGED <<sockets, sessions, sessionCache, alpnCache, connectionLock,
                 createConnection, h1, resets>>

\* the consumer reads the body: consume() hands the stream to
\* getStream.buffer(). A stream that was destroyed before either never
\* settles the read or fails it with a premature close, as the platform has it;
\* a platform that keeps the error of a destroyed stream fails the read with it.
Read(r) ==
  /\ req[r].read = "none"
  /\ \/ /\ req[r].pc \in {"h2body", "h1body"}
        /\ req' = [req EXCEPT ![r].read = "pending"]
     \/ /\ req[r].pc = "done" /\ req[r].cancelled
        /\ \E outcome \in {"hung", "premature close"} :
             req' = [req EXCEPT ![r].read = outcome]
     \/ /\ req[r].pc = "done" /\ req[r].decodeFailed
        /\ \E outcome \in {"hung", "premature close", "decode error"} :
             req' = [req EXCEPT ![r].read = outcome]
  /\ UNCHANGED <<sockets, sessions, sessionCache, alpnCache, connectionLock,
                 createConnection, h1, resets>>

\* the body stream's 'end' event, which a stream that is read comes to: the
\* read resolves, fetch() removes its abortHandler; without an agent the
\* connection is not kept alive
BodyEnd(r) ==
  /\ req[r].pc \in {"h2body", "h1body"}
  /\ req[r].read = "pending"
  /\ (req[r].pc = "h1body" /\ req[r].socket # None) => ~sockets[req[r].socket].destroyed
  /\ req' = [req EXCEPT ![r] =
       Settled([@ EXCEPT !.listeners = @ \ {"fetch"}, !.read = "ok"],
               "done", @.httpVersion, None)]
  /\ sockets' =
       IF req[r].pc = "h1body" /\ req[r].socket # None
          /\ sockets[req[r].socket].agent = "none"
       THEN [sockets EXCEPT ![req[r].socket].destroyed = TRUE]
       ELSE sockets
  /\ UNCHANGED <<sessions, sessionCache, alpnCache, connectionLock,
                 createConnection, h1, resets>>

\* the content-encoding headers a server sends: a value with white space
\* around it, or none
Encodings ==
  {<<"gzip">>, <<"x-gzip">>, <<"deflate">>, <<"x-deflate">>, <<"br">>,
   <<" ", "gzip", " ">>, <<"identity">>, <<>>}

\* the status and the content-length of a response with a body or without
ResponseStatus == {200, 204, 304}
ContentLengths == {"", "0", "1"}

\* String.prototype.trim()
RECURSIVE TrimStart(_)
TrimStart(text) ==
  IF text # <<>> /\ Head(text) = " " THEN TrimStart(Tail(text)) ELSE text

RECURSIVE TrimEnd(_)
TrimEnd(text) ==
  IF text # <<>> /\ text[Len(text)] = " "
  THEN TrimEnd(SubSeq(text, 1, Len(text) - 1))
  ELSE text

Trim(text) == TrimEnd(TrimStart(text))

\* /^\s*(?:(x-)?deflate|(x-)?gzip|br)\s*$/.test(encoding)
MatchesEncoding(encoding) ==
  Trim(encoding) \in {<<"deflate">>, <<"x-deflate">>, <<"gzip">>, <<"x-gzip">>,
                      <<"br">>}

\* shouldDecode(statusCode, headers)
shouldDecode(statusCode, length, encoding) ==
  IF statusCode = 204 \/ statusCode = 304 THEN FALSE
  ELSE IF length = "0" THEN FALSE
  ELSE MatchesEncoding(encoding)

\* decodeStream(): the decoder the body is piped through, "" for none
decodeStream(statusCode, length, encoding) ==
  IF ~shouldDecode(statusCode, length, encoding) THEN ""
  ELSE IF Trim(encoding) \in {<<"gzip">>, <<"x-gzip">>} THEN "gunzip"
  ELSE IF Trim(encoding) \in {<<"deflate">>, <<"x-deflate">>} THEN "inflate"
  ELSE IF Trim(encoding) = <<"br">> THEN "brotliDecompress"
  ELSE ""

\* the stream's 'response' event with the headers of a response that may be
\* encoded: the request resolves with createResponse(hdrs, req, reject), whose
\* readable is what decodeStream() returns
H2ResponseWith(r, statusCode, length, encoding) ==
  /\ req[r].pc = "h2wait"
  /\ req' = [req EXCEPT ![r].pc = "h2body", ![r].httpVersion = "2.0",
                        ![r].response = [status |-> statusCode, raw |-> NoLocation,
                                         location |-> NoLocation,
                                         counter |-> req[r].counter],
                        ![r].decoder = decodeStream(statusCode, length, encoding),
                        ![r].listeners =
                          IF req[r].signal = "none" THEN @ \ {"transport"}
                          ELSE (@ \ {"transport"}) \cup {"fetch"}]
  /\ UNCHANGED <<sockets, sessions, sessionCache, alpnCache, connectionLock,
                 createConnection, h1, resets>>

\* the decoder fails on the body: pipeline() destroys its streams with the
\* error, which the decoder emits, and calls cb(err), which calls onError - the
\* reject of a promise that is resolved already. A read that is pending fails
\* with the error.
DecodeError(r) ==
  /\ req[r].pc = "h2body"
  /\ req[r].decoder # ""
  /\ req' = [req EXCEPT ![r] =
       Settled([@ EXCEPT !.decodeFailed = TRUE, !.onError = TRUE,
                         !.listeners = @ \ {"fetch"},
                         !.read = IF @ = "pending" THEN "decode error" ELSE @],
               "done", "2.0", None)]
  /\ UNCHANGED <<sockets, sessions, sessionCache, alpnCache, connectionLock,
                 createConnection, h1, resets>>

\* the options a caller gives fetch(): redirect mode, follow limit, compress
\* flag, method and body, headers, a signal or none, in the options argument
\* or in a Request passed alone
Options ==
  [redirect : {"follow", "manual", "error"},
   follow : {{}} \cup {{n} : n \in 0..MaxFollow},
   compress : {{}, {TRUE}, {FALSE}},
   request : {<<"GET", "none">>, <<"POST", "none">>, <<"POST", "buffer">>,
              <<"POST", "stream">>},
   headers : {{}, {"content-length", "x-test"}},
   signal : {"none", "live"},
   viaRequest : BOOLEAN]

\* new Request(url, options) for the caller's options
NewRequest(c, o, options) ==
  [IdleReq EXCEPT !.ctx = c, !.origin = o,
                  !.redirect = options.redirect, !.follow = options.follow,
                  !.compress = options.compress, !.method = options.request[1],
                  !.body = options.request[2], !.headers = options.headers,
                  !.signal = options.signal, !.viaRequest = options.viaRequest]

\* fetch(ctx, url, options) with options, up to the first await of request()
FetchWith(r, c, o, options) ==
  /\ req[r].pc = "idle"
  /\ \A q \in Req : q < r => req[q].pc # "idle"
  /\ \E q \in {Dispatched(NewRequest(c, o, options))} : request(r, q)
  /\ UNCHANGED resets

\* new URL(location, req.url): the origin of the resolved location
Resolve(location, origin) == IF location = Relative THEN origin ELSE location

\* a location header that is left as the server sent it
LocationHeaderAsSent(location, origin) == location

\* headers.location of a 'manual' response: the resolved URL, if there is one
LocationHeader(location, origin) ==
  IF location = NoLocation THEN NoLocation ELSE Resolve(location, origin)

\* req.follow: the Request keeps the option follow in no property, so what
\* fetch() reads is undefined, whatever the caller gave
ReqFollow(q) == {}

\* req.counter >= req.follow, which is false for an undefined limit
ReachedLimit(counter, follow) == \E n \in follow : counter >= n

\* the body the check of a followed redirect looks at is options.body
OptionsBodyIsReadable(q) == HasOptions(q) /\ q.body = "stream"

\* a rule that turns the request of a 303 only into a GET
TurnsIntoGetOn303(status, method) == status = 303

\* a redirect that turns the request into a GET without a body
TurnsIntoGet(status, method) ==
  status = 303 \/ (status \in {301, 302} /\ method = "POST")

\* a switch that takes redirect 'error' for 'manual'
RedirectOutcomeLenient(q, status, location) ==
  IF q.redirect \in {"error", "manual"} THEN "manual"
  ELSE IF location = NoLocation THEN "return"
  ELSE "follow"

\* the switch on req.redirect for a response with a redirect status
RedirectOutcome(q, status, location) ==
  IF q.redirect = "error" THEN "no-redirect"
  ELSE IF q.redirect = "manual" THEN "manual"
  ELSE IF location = NoLocation THEN "return"
  ELSE IF ReachedLimit(q.counter, ReqFollow(q)) THEN "max-redirect"
  ELSE IF status # 303 /\ q.body # "none" /\ OptionsBodyIsReadable(q)
  THEN "unsupported-redirect"
  ELSE "follow"

\* the Request fetch() makes for the location of a followed redirect
NextRequest(q, status, location) ==
  [q EXCEPT !.origin = Resolve(location, q.origin),
            !.counter = @ + 1,
            !.method = IF TurnsIntoGet(status, q.method) THEN "GET" ELSE @,
            !.body = IF TurnsIntoGet(status, q.method) THEN "none" ELSE @,
            !.headers = IF TurnsIntoGet(status, q.method)
                        THEN @ \ {"content-length"} ELSE @]

\* a response with a redirect status arrives: fetch() subscribes its
\* abortHandler and goes by req.redirect.
\*  - 'error', a reached limit, a readable body: the handler is removed and
\*    fetch() throws a FetchError;
\*  - 'manual', or no location: the response is returned, for 'manual' with the
\*    resolved location;
\*  - 'follow': the handler is removed and fetch() calls itself for the
\*    location with the counter raised and with no options; that call throws
\*    if the signal has fired and calls request() otherwise
RedirectResponse(r, status, location) ==
  /\ req[r].pc \in {"h2wait", "h1wait"}
  /\ (req[r].pc = "h1wait" /\ req[r].socket # None) => ~sockets[req[r].socket].destroyed
  /\ LET q0 == [req[r] EXCEPT !.listeners = @ \ {"transport"},
                               !.via = [status |-> status, location |-> location,
                                        method |-> req[r].method,
                                        body |-> req[r].body,
                                        headers |-> req[r].headers]]
         out == RedirectOutcome(q0, status, location)
     IN
     IF out = "follow"
     THEN /\ q0.counter < MaxFollow
          /\ LET q == [Settled(NextRequest(q0, status, location), "idle", "", None)
                        EXCEPT !.lockErr = None]
             IN
             IF q.signal = "aborted"
             THEN /\ req' = [req EXCEPT ![r] = Settled(q, "failed", "", AbortError)]
                  /\ UNCHANGED <<sockets, sessions, sessionCache, alpnCache,
                                 connectionLock, createConnection, h1>>
             ELSE \E hop \in {Dispatched(q)} : request(r, hop)
     ELSE IF out \in {"manual", "return"}
     THEN /\ req' = [req EXCEPT ![r] =
               [q0 EXCEPT !.pc = IF @ = "h2wait" THEN "h2body" ELSE "h1body",
                          !.httpVersion = IF q0.pc = "h2wait" THEN "2.0" ELSE "1.1",
                          !.listeners = IF q0.signal = "none" THEN @
                                        ELSE @ \cup {"fetch"},
                          !.response =
                            [status |-> status,
                             raw |-> location,
                             location |-> IF out = "return" THEN location
                                          ELSE LocationHeader(location, q0.origin),
                             counter |-> q0.counter]]]
          /\ UNCHANGED <<sockets, sessions, sessionCache, alpnCache,
                         connectionLock, createConnection, h1>>
     ELSE /\ req' = [req EXCEPT ![r] =
               Settled([q0 EXCEPT !.type = out], "failed", "", FetchError)]
          /\ UNCHANGED <<sockets, sessions, sessionCache, alpnCache,
                         connectionLock, createConnection, h1>>
  /\ UNCHANGED resets

\* a 307 response with the absolute location o
Redirect(r, o) == RedirectResponse(r, 307, o)

\* controller.abort(): the signal fires and its listeners run.
\*  - onAbortSignal of the HTTP/2 transport removes itself, rejects with a
\*    RequestAbortedError and closes the stream with CANCEL;
\*  - abortHandler of fetch() removes itself and emits an error on the body
\*    stream: a pending read fails with it and destroys the stream; the error
\*    handler of an HTTP/2 stream closes the stream with CANCEL;
\*  - connect() and h1Request() have no listener; a platform whose
\*    http.request() takes a signal option destroys the request, another
\*    ignores the signal.
Abort(r) ==
  /\ req[r].signal = "live"
  /\ LET q == [req[r] EXCEPT !.signal = "aborted", !.abortedAt = req[r].pc,
                             !.listeners = {}]
     IN
     \/ /\ "transport" \in req[r].listeners /\ req[r].pc \in {"h2wait", "h2closed"}
        /\ req' = [req EXCEPT ![r] =
             Settled([q EXCEPT !.cancelled = TRUE], "failed", "", AbortError)]
        /\ UNCHANGED sockets
     \/ /\ "fetch" \in req[r].listeners /\ req[r].pc = "h2body"
        /\ req' = [req EXCEPT ![r] =
             Settled([q EXCEPT !.cancelled = TRUE,
                               !.read = IF @ = "pending" THEN "AbortError" ELSE @],
                     "done", "2.0", None)]
        /\ UNCHANGED sockets
     \/ /\ "fetch" \in req[r].listeners /\ req[r].pc = "h1body"
        /\ req[r].read = "pending"
        /\ req' = [req EXCEPT ![r] =
             Settled([q EXCEPT !.cancelled = TRUE, !.read = "AbortError"],
                     "done", "1.1", None)]
        /\ sockets' = IF req[r].socket # None
                      THEN [sockets EXCEPT ![req[r].socket].destroyed = TRUE]
                      ELSE sockets
     \/ /\ "fetch" \in req[r].listeners /\ req[r].pc = "h1body"
        /\ req[r].read # "pending"
        /\ req' = [req EXCEPT ![r] = q]
        /\ UNCHANGED sockets
     \/ /\ req[r].pc = "h1wait" /\ TransportSignal(req[r]) = "live"
        /\ req' = [req EXCEPT ![r] =
             Settled([q EXCEPT !.cancelled = TRUE], "failed", "", PlatformAbortError)]
        /\ sockets' = IF req[r].socket # None
                      THEN [sockets EXCEPT ![req[r].socket].destroyed = TRUE]
                      ELSE sockets
     \/ /\ req[r].listeners \cap {"transport", "fetch"} = {}
           \/ req[r].pc \in {"idle", "done", "failed"}
        /\ req' = [req EXCEPT ![r] = q]
        /\ UNCHANGED sockets
  /\ UNCHANGED <<sessions, sessionCache, alpnCache, connectionLock,
                 createConnection, h1, resets>>

\* ------------------------------------------------------------------ sessions
\* the error a failed session rejects its requests with
SessionErrorOf(s) == NumReq + s

\* the session's 'error' event: the session is destroyed, its streams fail
SessionError(s) ==
  /\ s \in 1..Len(sessions)
  /\ sessions[s].state = "open" \/ (sessions[s].state = "closed" /\ Streams(s) # {})
  /\ sessions' = [sessions EXCEPT ![s].state =
                    IF @ = "open" THEN "destroyed" ELSE @]
  /\ req' = [q \in Req |->
       IF q \in Streams(s) /\ req[q].pc = "h2wait"
       THEN Settled([req[q] EXCEPT !.listeners = @ \ {"transport"}],
                    "failed", "", SessionErrorOf(s))
       ELSE IF q \in Streams(s)
       THEN Settled([req[q] EXCEPT !.listeners = @ \ {"fetch"},
                                   !.read = IF @ = "pending" THEN "failed" ELSE @],
                    "done", "2.0", None)
       ELSE req[q]]
  /\ UNCHANGED <<sockets, sessionCache, alpnCache, connectionLock, createConnection,
                 h1, resets>>

\* the codes a stream is closed with
NGHTTP2_NO_ERROR == "NGHTTP2_NO_ERROR"
NGHTTP2_CANCEL == "NGHTTP2_CANCEL"
NGHTTP2_INTERNAL_ERROR == "NGHTTP2_INTERNAL_ERROR"

\* the codes the peer resets a stream with
RstCodes == {NGHTTP2_NO_ERROR, NGHTTP2_CANCEL, NGHTTP2_INTERNAL_ERROR}

\* the error of a stream of request r that was reset
StreamErrorOf(r) == 3 * NumReq + 5 + r

\* the peer resets the stream before it sent a response (RST_STREAM). With
\* NO_ERROR or CANCEL the stream is closed and emits 'aborted' and 'close',
\* which have no listener: the promise stays as it is, the listener on the
\* signal stays subscribed. With another code the stream emits 'error': the
\* listener on the signal is removed and, rstCode not being CANCEL, the
\* request is rejected.
StreamReset(r, code) ==
  /\ req[r].pc = "h2wait"
  /\ req' = [req EXCEPT ![r] =
       IF code \in {NGHTTP2_NO_ERROR, NGHTTP2_CANCEL}
       THEN [@ EXCEPT !.pc = "h2closed"]
       ELSE Settled([@ EXCEPT !.listeners = @ \ {"transport"}], "failed", "",
                    StreamErrorOf(r))]
  /\ UNCHANGED <<sockets, sessions, sessionCache, alpnCache, connectionLock,
                 createConnection, h1, resets>>

\* the idle timer set by session.setTimeout(): session.close(). The timer runs
\* out when nothing was sent or received on the session for idleSessionTimeout,
\* also while a stream waits for a response that is slow to come.
IdleTimeout(s) ==
  /\ s \in 1..Len(sessions)
  /\ sessions[s].state = "open"
  /\ sessions' = [sessions EXCEPT ![s].state = "closed"]
  /\ UNCHANGED <<req, sockets, sessionCache, alpnCache, connectionLock,
                 createConnection, h1, resets>>

\* the session's 'close' handler: the cache entry of the origin is deleted
CacheAfterClose(cache, s) ==
  [cache EXCEPT ![sessions[s].ctx][sessions[s].origin] = None]

\* the session's 'close' event, once its streams are finished: the handler of
\* request() runs, then the callbacks reset() passed to close(); the
\* transport is gone
SessionClose(s) ==
  /\ s \in 1..Len(sessions)
  /\ sessions[s].state \in {"closed", "destroyed"}
  /\ Streams(s) = {}
  /\ sessions' = [sessions EXCEPT ![s].state = "gone"]
  /\ sessionCache' = CacheAfterClose(sessionCache, s)
  /\ sockets' =
       IF sessions[s].socket # None
       THEN [sockets EXCEPT ![sessions[s].socket].destroyed = TRUE]
       ELSE sockets
  /\ resets' = [i \in 1..Len(resets) |-> [resets[i] EXCEPT !.wait = @ \ {s}]]
  /\ UNCHANGED <<req, alpnCache, connectionLock, createConnection, h1>>

\* ------------------------------------------------------------------ reset()
InFlight(c) == {q \in Req : req[q].ctx = c /\ req[q].pc \notin {"idle", "done", "failed"}}
Started(c) == {q \in Req : req[q].ctx = c /\ req[q].pc # "idle"}
Cached(c) == {sessionCache[c][o] : o \in Origin} \ {None}

\* a reset() of the context has resolved and no request was started since
WasReset(c) ==
  \E i \in 1..Len(resets) :
    /\ resets[i].ctx = c
    /\ resets[i].resolved
    /\ resets[i].idle
    /\ resets[i].started = Cardinality(Started(c))

\* resetContext(): the ALPN cache is cleared, the agents are destroyed and
\* deleted, close(resolve) is called on every cached session. close() of a
\* session that is closed or destroyed already returns without taking the
\* callback.
Reset(c) ==
  /\ Len(resets) < MaxReset
  /\ alpnCache' = [alpnCache EXCEPT ![c] = <<>>]
  /\ h1' = [h1 EXCEPT ![c] = [httpAgent |-> FALSE, httpsAgent |-> FALSE]]
  /\ sockets' = [i \in 1..Len(sockets) |->
       IF sockets[i].agent = c THEN [sockets[i] EXCEPT !.destroyed = TRUE]
       ELSE sockets[i]]
  /\ sessions' = [s \in 1..Len(sessions) |->
       IF s \in Cached(c) /\ sessions[s].state = "open"
       THEN [sessions[s] EXCEPT !.state = "closed"]
       ELSE sessions[s]]
  /\ resets' = Append(resets,
       [ctx |-> c,
        wait |-> {s \in Cached(c) : sessions[s].state = "open"},
        hung |-> \E s \in Cached(c) : sessions[s].state # "open",
        idle |-> InFlight(c) = {},
        inflight |-> InFlight(c),
        started |-> Cardinality(Started(c)),
        again |-> WasReset(c),
        changed |-> \/ alpnCache[c] # <<>>
                    \/ h1[c] # [httpAgent |-> FALSE, httpsAgent |-> FALSE]
                    \/ Cached(c) # {},
        resolved |-> FALSE])
  /\ UNCHANGED <<req, sessionCache, connectionLock, createConnection>>

\* the promise of reset() resolves: every close callback it waits for has run
ResetResolve(i) ==
  /\ i \in 1..Len(resets)
  /\ ~resets[i].resolved
  /\ resets[i].wait = {}
  /\ ~resets[i].hung
  /\ resets' = [resets EXCEPT ![i].resolved = TRUE]
  /\ UNCHANGED <<req, sockets, sessions, sessionCache, alpnCache, connectionLock,
                 createConnection, h1>>

\* ------------------------------------------------------------------ push
\* the paths a server promises, and the status of a pushed response
PushPath == {"/a", "/b"}
PushStatus == {200, 404}

\* no call of a handler, and no response made
NoCall == [url |-> "", response |-> [statusCode |-> 0, readable |-> <<0, 0>>]]

\* ctx.options.h2.pushPromiseHandler and .pushHandler are registered
HasPushPromiseHandler(c) == HasH2Options(c)
HasPushHandler(c) == HasH2Options(c)

\* settings.enablePush of the sessions of a context
enablePush(c) == HasPushPromiseHandler(c) \/ HasPushHandler(c)

\* `${origin}${path}`
PushUrl(o, path) == <<o, path>>

\* pushedStream.close(code): the stream is closed with the code and its timeout
\* is cleared
ClosePushed(p, code) ==
  [p EXCEPT !.state = "closed", !.rstCode = code, !.timer = FALSE]

\* a reject callback that leaves the stream open
rejectPushKeepsStream(p) == p

\* rejectPush()
rejectPush(p) == ClosePushed(p, NGHTTP2_CANCEL)

\* createResponse(responseHeaders, pushedStream) of the i-th pushed stream of
\* session s
createResponse(status, s, i) == [statusCode |-> status, readable |-> <<s, i>>]

\* a pushHandler called as pushHandler(url, response). The handler of a fetch
\* context is the wrapper (url, reqHeaders, response) => ..., which reads the
\* fields of its third argument, undefined in this call: it throws and the
\* handler it wraps is not called.
CallPushHandler(p, wrapped, url, response) ==
  IF wrapped
  THEN [p EXCEPT !.thrown = TRUE]
  ELSE [p EXCEPT !.pushHandler = [url |-> url, response |-> response]]

\* session.on('stream'): handlePush() up to the registration of the listeners.
\* The server promises path on an open request stream of session s; reject
\* tells whether the pushPromiseHandler calls the reject callback it is given.
PushPromise(s, path, reject) ==
  /\ s \in 1..Len(sessions)
  /\ sessions[s].state = "open"
  /\ enablePush(sessions[s].ctx)
  /\ Streams(s) # {}
  /\ Len(sessions[s].pushed) < MaxPush
  /\ LET url == PushUrl(sessions[s].origin, path)
         p0 == [path |-> path, state |-> "promised", rstCode |-> "",
                timer |-> FALSE, consumed |-> FALSE, thrown |-> FALSE,
                logged |-> {}, status |-> 0, rejected |-> FALSE,
                pushPromiseHandler |-> "", pushHandler |-> NoCall]
         p == IF HasPushPromiseHandler(sessions[s].ctx)
              THEN LET called == [p0 EXCEPT !.pushPromiseHandler = url,
                                            !.rejected = reject]
                   IN IF reject THEN rejectPush(called) ELSE called
              ELSE p0
     IN sessions' = [sessions EXCEPT ![s].pushed = Append(@, p)]
  /\ UNCHANGED <<req, sockets, sessionCache, alpnCache, connectionLock,
                 createConnection, h1, resets>>

\* pushedStream.on('push'): the headers of the pushed response arrive. The
\* session drops the HEADERS of a stream it has reset, so a closed stream emits
\* no 'push'. wrapped tells whether the registered pushHandler is the wrapper of
\* a fetch context.
PushHeaders(s, i, status, wrapped) ==
  /\ s \in 1..Len(sessions)
  /\ i \in 1..Len(sessions[s].pushed)
  /\ sessions[s].pushed[i].state = "promised"
  /\ LET p == sessions[s].pushed[i]
         timed == [p EXCEPT !.state = "headers", !.status = status,
                            !.timer = TRUE]
         url == PushUrl(sessions[s].origin, p.path)
     IN sessions' = [sessions EXCEPT ![s].pushed[i] =
          IF HasPushHandler(sessions[s].ctx)
          THEN CallPushHandler(timed, wrapped, url, createResponse(status, s, i))
          ELSE timed]
  /\ UNCHANGED <<req, sockets, sessionCache, alpnCache, connectionLock,
                 createConnection, h1, resets>>

\* the handler that was given the response reads its body to the end: the
\* pushed stream ends and is closed
PushConsume(s, i) ==
  /\ s \in 1..Len(sessions)
  /\ i \in 1..Len(sessions[s].pushed)
  /\ sessions[s].pushed[i].state = "headers"
  /\ sessions[s].pushed[i].pushHandler # NoCall
  /\ sessions' = [sessions EXCEPT ![s].pushed[i] =
       [ClosePushed(@, NGHTTP2_NO_ERROR) EXCEPT !.consumed = TRUE]]
  /\ UNCHANGED <<req, sockets, sessionCache, alpnCache, connectionLock,
                 createConnection, h1, resets>>

\* a timeout that is never due
PushTimeoutNever(s, i) == FALSE /\ UNCHANGED vars

\* the callback of pushedStream.setTimeout(pushedStreamIdleTimeout, ...)
PushTimeout(s, i) ==
  /\ s \in 1..Len(sessions)
  /\ i \in 1..Len(sessions[s].pushed)
  /\ sessions[s].pushed[i].timer
  /\ sessions' = [sessions EXCEPT ![s].pushed[i] = ClosePushed(@, NGHTTP2_CANCEL)]
  /\ UNCHANGED <<req, sockets, sessionCache, alpnCache, connectionLock,
                 createConnection, h1, resets>>

\* the events of a pushed stream that handlePush() listens to besides 'push'
PushEvent == {"aborted", "error", "frameError"}

\* a listener that takes the event of the pushed stream for one of its session:
\* the session is destroyed, dropped from the cache, and its requests fail
PushErrorFailsSession(s, i, event) ==
  /\ s \in 1..Len(sessions)
  /\ i \in 1..Len(sessions[s].pushed)
  /\ sessions[s].pushed[i].state # "closed"
  /\ sessions' = [sessions EXCEPT ![s].state = "destroyed",
                                  ![s].pushed[i].logged = @ \cup {event}]
  /\ sessionCache' = [c \in Ctx |-> [o \in Origin |->
       IF sessionCache[c][o] = s THEN None ELSE sessionCache[c][o]]]
  /\ req' = [q \in Req |->
       IF q \in Streams(s) THEN [req[q] EXCEPT !.pc = "failed"] ELSE req[q]]
  /\ UNCHANGED <<sockets, alpnCache, connectionLock, createConnection, h1,
                 resets>>

\* pushedStream.on('aborted' | 'error' | 'frameError'): the event is logged.
\* The stream that emits 'aborted' or 'error' is destroyed.
PushError(s, i, event) ==
  /\ s \in 1..Len(sessions)
  /\ i \in 1..Len(sessions[s].pushed)
  /\ sessions[s].pushed[i].state # "closed"
  /\ LET p == sessions[s].pushed[i]
         logged == [p EXCEPT !.logged = @ \cup {event}]
     IN sessions' = [sessions EXCEPT ![s].pushed[i] =
          IF event = "frameError" THEN logged
          ELSE ClosePushed(logged, NGHTTP2_INTERNAL_ERROR)]
  /\ UNCHANGED <<req, sockets, sessionCache, alpnCache, connectionLock,
                 createConnection, h1, resets>>

\* ------------------------------------------------------------------ time
\* one clock tick: every entry of every ALPN cache gets older
Tick ==
  /\ \E c \in Ctx : \E i \in 1..Len(alpnCache[c]) : ~isStale(alpnCache[c][i])
  /\ alpnCache' = [c \in Ctx |-> [i \in 1..Len(alpnCache[c]) |->
       IF isStale(alpnCache[c][i]) THEN alpnCache[c][i]
       ELSE [alpnCache[c][i] EXCEPT !.age = @ + 1]]]
  /\ UNCHANGED <<req, sockets, sessions, sessionCache, connectionLock,
                 createConnection, h1, resets>>

\* ------------------------------------------------------------------ specifications
Next ==
  \/ \E r \in Req, c \in Ctx, o \in Origin : Start(r, c, o)
  \/ \E r \in Req : LockWake(r)
  \/ \E r \in Req : TLSConnect(r)
  \/ \E r \in Req : TLSError(r)
  \/ \E r \in Req : H2Response(r)
  \/ \E r \in Req : H1Response(r)
  \/ \E r \in Req : H1Error(r)
  \/ \E s \in 1..NumReq : SessionError(s)
  \/ \E s \in 1..NumReq : IdleTimeout(s)
  \/ \E s \in 1..NumReq : SessionClose(s)
  \/ \E c \in Ctx : Reset(c)
  \/ \E i \in 1..MaxReset : ResetResolve(i)
  \/ Tick

Spec == Init /\ [][Next]_vars

\* The connection lock and the hand-over of the negotiated socket: requests of
\* both contexts to the https origin, with failing handshakes.
NextLock ==
  \/ \E r \in Req, c \in Ctx : Start(r, c, "https://a")
  \/ \E r \in Req : LockWake(r)
  \/ \E r \in Req : TLSConnect(r)
  \/ \E r \in Req : TLSError(r)
  \/ \E r \in Req : H2Response(r)
  \/ \E r \in Req : H1Response(r)
  \/ \E r \in Req : H1Error(r)
  \/ Tick

SpecLock == Init /\ [][NextLock]_vars

\* Failing protocol determination: requests of both contexts to the https
\* origin whose handshake may fail, and requests with an unsupported scheme.
NextConnectFail ==
  \/ \E r \in Req, c \in Ctx : Start(r, c, "https://a")
  \/ \E r \in Req, c \in Ctx : UnsupportedProtocol(r, c)
  \/ \E r \in Req : LockWake(r)
  \/ \E r \in Req : TLSConnect(r)
  \/ \E r \in Req : TLSError(r)
  \/ \E r \in Req : H2Response(r)
  \/ \E r \in Req : H1Response(r)

SpecConnectFail == Init /\ [][NextConnectFail]_vars

\* The hand-over to HTTP/1: requests of the context restricted to http/1.1 to
\* the https origin, with failing handshakes and failing requests.
NextH1 ==
  \/ \E r \in Req : Start(r, "cB", "https://a")
  \/ \E r \in Req : LockWake(r)
  \/ \E r \in Req : TLSConnect(r)
  \/ \E r \in Req : TLSError(r)
  \/ \E r \in Req : H1Response(r)
  \/ \E r \in Req : H1Error(r)
  \/ Tick

SpecH1 == Init /\ [][NextH1]_vars

\* Cancellation over HTTP/2: fetches of one context to the https origin, with
\* signals, response bodies, redirects and failing sessions.
NextAbort ==
  \/ \E r \in Req : WithSignal(r)
  \/ \E r \in Req : Abort(r)
  \/ \E r \in Req : Start(r, "cA", "https://a")
  \/ \E r \in Req : FetchAborted(r, "cA", "https://a")
  \/ \E r \in Req : LockWake(r)
  \/ \E r \in Req : TLSConnect(r)
  \/ \E r \in Req : H2Headers(r)
  \/ \E r \in Req : Redirect(r, "https://a")
  \/ \E r \in Req : Read(r)
  \/ \E r \in Req : BodyEnd(r)
  \/ \E s \in 1..NumReq : SessionError(s)
  \/ \E s \in 1..NumReq : SessionClose(s)

SpecAbort == Init /\ [][NextAbort]_vars

\* Redirects: one fetch to the https origin with the caller's options, answered
\* with redirects to the same origin or with a final response.
NextRedirect ==
  \/ \E r \in Req, options \in Options :
       /\ \A q \in Req : req[q].pc = "idle"
       /\ FetchWith(r, "cA", "https://a", options)
  \/ \E r \in Req : TLSConnect(r)
  \/ \E r \in Req, status \in RedirectStatus,
         location \in {NoLocation, Relative, "https://a"} :
       RedirectResponse(r, status, location)
  \/ \E r \in Req : H2Headers(r)
  \/ \E r \in Req : Read(r)
  \/ \E r \in Req : BodyEnd(r)

SpecRedirect == Init /\ [][NextRedirect]_vars

\* Push: requests of a context made by the core's context(), with both push
\* handlers registered, to a server that pushes.
NextPush ==
  \/ \E r \in Req : Start(r, "cA", "https://a")
  \/ \E r \in Req : TLSConnect(r)
  \/ \E r \in Req : LockWake(r)
  \/ \E r \in Req : H2Response(r)
  \/ \E s \in Req, path \in PushPath, reject \in BOOLEAN :
       PushPromise(s, path, reject)
  \/ \E s \in Req, i \in 1..MaxPush, status \in PushStatus :
       PushHeaders(s, i, status, FALSE)
  \/ \E s \in Req, i \in 1..MaxPush : PushConsume(s, i)
  \/ \E s \in Req, i \in 1..MaxPush : PushTimeout(s, i)

SpecPush == Init /\ [][NextPush]_vars

\* timers that are due fire
SpecPushFair ==
  SpecPush /\ \A s \in Req, i \in 1..MaxPush : WF_vars(PushTimeout(s, i))

\* Push to a fetch context: as before, with the pushHandler registered through
\* the context() of the fetch API.
NextPushFetch ==
  \/ \E r \in Req : Start(r, "cA", "https://a")
  \/ \E r \in Req : TLSConnect(r)
  \/ \E r \in Req : LockWake(r)
  \/ \E r \in Req : H2Response(r)
  \/ \E s \in Req, path \in PushPath, reject \in BOOLEAN :
       PushPromise(s, path, reject)
  \/ \E s \in Req, i \in 1..MaxPush, status \in PushStatus :
       PushHeaders(s, i, status, TRUE)
  \/ \E s \in Req, i \in 1..MaxPush : PushTimeout(s, i)

SpecPushFetch == Init /\ [][NextPushFetch]_vars

\* Failing pushed streams: the first request of a context goes to the https
\* origin and the later ones to the http2 origin, so that there are two
\* sessions; a stream pushed on them aborts, fails or meets a frame error, once.
NextPushError ==
  \/ \E r \in Req :
       Start(r, "cA", IF r = 1 THEN "https://a" ELSE "http2://c")
  \/ \E r \in Req : TLSConnect(r)
  \/ \E r \in Req : H2Response(r)
  \/ \E s \in Req : PushPromise(s, "/a", FALSE)
  \/ \E s \in Req, i \in 1..MaxPush : PushHeaders(s, i, 200, FALSE)
  \/ \E s \in Req, i \in 1..MaxPush, event \in PushEvent :
       /\ PushError(s, i, event)
       /\ sessions[s].pushed[i].logged = {}

SpecPushError == Init /\ [][NextPushError]_vars

\* Idle sessions: requests of one context to the https origin, and sessions
\* that are closed by their idle timer only.
NextIdle ==
  \/ \E r \in Req : Start(r, "cA", "https://a")
  \/ \E r \in Req : LockWake(r)
  \/ \E r \in Req : TLSConnect(r)
  \/ \E r \in Req : H2Response(r)
  \/ \E s \in 1..NumReq : IdleTimeout(s)
  \/ \E s \in 1..NumReq : SessionClose(s)

SpecIdle == Init /\ [][NextIdle]_vars

\* Request bodies: every request of a run is a POST with the same body, a
\* string or a Buffer, sent by a context that speaks HTTP/2 or by one that
\* speaks HTTP/1.
Bodies == [kind : {"string", "buffer"}, data : Contents(MaxBody)]

InitBody ==
  /\ \E payload \in Bodies :
       req = [r \in Req |->
                [IdleReq EXCEPT !.method = "POST", !.body = "buffer",
                                !.payload = payload]]
  /\ sockets = <<>>
  /\ sessions = <<>>
  /\ sessionCache = [c \in Ctx |-> [o \in Origin |-> None]]
  /\ alpnCache = [c \in Ctx |-> <<>>]
  /\ connectionLock = [o \in Origin |-> [locked |-> FALSE, value |-> None]]
  /\ createConnection = [c \in Ctx |-> None]
  /\ h1 = [c \in Ctx |-> [httpAgent |-> FALSE, httpsAgent |-> FALSE]]
  /\ resets = <<>>

NextBody ==
  \/ \E r \in Req, c \in Ctx : Start(r, c, "https://a")
  \/ \E r \in Req : TLSConnect(r)
  \/ \E r \in Req : H2Response(r)
  \/ \E r \in Req : H1Response(r)

SpecBody == InitBody /\ [][NextBody]_vars

\* Decoding: requests over HTTP/2 whose responses may be encoded, bodies that
\* are read sooner or later, and decoders that fail.
NextDecode ==
  \/ \E r \in Req : Start(r, "cA", "https://a")
  \/ \E r \in Req : LockWake(r)
  \/ \E r \in Req : TLSConnect(r)
  \/ \E r \in Req, statusCode \in ResponseStatus, length \in ContentLengths,
         encoding \in Encodings :
       H2ResponseWith(r, statusCode, length, encoding)
  \/ \E r \in Req : Read(r)
  \/ \E r \in Req : BodyEnd(r)
  \/ \E r \in Req : DecodeError(r)

SpecDecode == Init /\ [][NextDecode]_vars

\* Cancellation over HTTP/1: fetches of the context restricted to http/1.1 to
\* the https origin, with signals, response bodies and redirects.
NextAbortH1 ==
  \/ \E r \in Req : WithSignal(r)
  \/ \E r \in Req : Abort(r)
  \/ \E r \in Req : Start(r, "cB", "https://a")
  \/ \E r \in Req : FetchAborted(r, "cB", "https://a")
  \/ \E r \in Req : LockWake(r)
  \/ \E r \in Req : TLSConnect(r)
  \/ \E r \in Req : H1Headers(r)
  \/ \E r \in Req : H1Error(r)
  \/ \E r \in Req : Redirect(r, "https://a")
  \/ \E r \in Req : Read(r)
  \/ \E r \in Req : BodyEnd(r)

SpecAbortH1 == Init /\ [][NextAbortH1]_vars

\* The session cache of one context: requests to the https origin, with idle
\* timeouts, session errors, close events and reset().
NextSession ==
  \/ \E r \in Req : Start(r, "cA", "https://a")
  \/ \E r \in Req : LockWake(r)
  \/ \E r \in Req : TLSConnect(r)
  \/ \E r \in Req : H2Response(r)
  \/ \E s \in 1..NumReq : SessionError(s)
  \/ \E s \in 1..NumReq : IdleTimeout(s)
  \/ \E s \in 1..NumReq : SessionClose(s)
  \/ Reset("cA")
  \/ \E i \in 1..MaxReset : ResetResolve(i)

SpecSession == Init /\ [][NextSession]_vars

\* The same, with the event loop running every callback that is due and the
\* peer answering every request: no step that can be taken is put off for ever.
SpecSessionFair == SpecSession /\ WF_vars(NextSession)

\* The streams of HTTP/2 requests: requests of the context with h2 options to
\* the https origin, with or without a signal, answered, reset by the peer,
\* aborted, or failed with their session.
NextStream ==
  \/ \E r \in Req : WithSignal(r)
  \/ \E r \in Req : Start(r, "cA", "https://a")
  \/ \E r \in Req : LockWake(r)
  \/ \E r \in Req : TLSConnect(r)
  \/ \E r \in Req : H2Response(r)
  \/ \E r \in Req, code \in RstCodes : StreamReset(r, code)
  \/ \E r \in Req : Abort(r)
  \/ \E s \in 1..NumReq : SessionError(s)
  \/ \E s \in 1..NumReq : SessionClose(s)

SpecStream == Init /\ [][NextStream]_vars

\* what the peer does with an open stream: it answers or resets it
StreamEvent(r) == H2Response(r) \/ \E code \in RstCodes : StreamReset(r, code)

\* The same, with a peer that leaves no open stream without an answer or a
\* reset for ever.
SpecStreamFair == SpecStream /\ \A r \in Req : WF_vars(StreamEvent(r))

\* Concurrent requests of one context to the https origin, nothing failing.
NextConcurrent ==
  \/ \E r \in Req : Start(r, "cA", "https://a")
  \/ \E r \in Req : LockWake(r)
  \/ \E r \in Req : TLSConnect(r)
  \/ \E r \in Req : H2Response(r)
  \/ Tick

SpecConcurrent == Init /\ [][NextConcurrent]_vars

\* The ALPN cache: requests of both contexts to every origin, with the clock,
\* failing handshakes and reset().
NextAlpn ==
  \/ \E r \in Req, c \in Ctx, o \in Origin : Start(r, c, o)
  \/ \E r \in Req : LockWake(r)
  \/ \E r \in Req : TLSConnect(r)
  \/ \E r \in Req : TLSError(r)
  \/ \E r \in Req : H2Response(r)
  \/ \E r \in Req : H1Response(r)
  \/ \E c \in Ctx : Reset(c)
  \/ Tick

SpecAlpn == Init /\ [][NextAlpn]_vars

\* ------------------------------------------------------------------ claims
SessionIds == 1..Len(sessions)
SocketIds == 1..Len(sockets)

\* the sessions of a context for an origin that are not closed
OpenSessions(c, o) ==
  {s \in SessionIds : sessions[s].ctx = c /\ sessions[s].origin = o /\ sessions[s].state = "open"}

\* C1: in every reachable state, for every context and origin, at most one
\* session that is not closed exists (the cache, a map, holds at most one).
C1_OneOpenSessionPerOrigin ==
  \A c \in Ctx, o \in Origin :
    /\ sessionCache[c][o] \in {None} \cup SessionIds
    /\ Cardinality(OpenSessions(c, o)) <= 1

\* C2: concurrent requests of one context to the h2 origin, nothing cached
\* before: one session is created, every dispatched request has its stream on
\* it, no request fails, every settled request has an HTTP/2 response, and a
\* request waits for the lock only while it is free or a handshake is under way.
C2_ConcurrentRequestsShareOneSession ==
  /\ Len(sessions) <= 1
  /\ \A r \in Req :
       /\ req[r].pc # "failed"
       /\ req[r].pc = "h2wait" => req[r].session = 1 /\ sessions[1].state = "open"
       /\ req[r].pc # "h1wait"
       /\ req[r].pc = "done" => req[r].httpVersion = "2.0" /\ Len(sessions) = 1
  /\ \A r \in Req :
       req[r].pc = "waitLock" =>
         \/ ~connectionLock[req[r].origin].locked
         \/ \E q \in Req : req[q].pc = "connecting" /\ req[q].origin = req[r].origin

\* C2 witness: two streams are open on the one session, and one of the two
\* requests waited for the lock and was handed the socket of the other
C2_Witness ==
  /\ Len(sessions) = 1
  /\ \E r, q \in Req :
       /\ r # q
       /\ req[r].pc = "h2wait" /\ req[q].pc = "h2wait"
       /\ req[r].handed # None /\ req[q].opened = req[r].handed

\* the requests whose TLS handshake is in progress for an origin
Handshakes(o) == {r \in Req : req[r].pc = "connecting" /\ req[r].origin = o}

\* C3: at most one handshake per origin is in progress, and only under the
\* lock; a caller that waited and is handed a socket takes that socket, made by
\* another caller, and opens none; a caller that waited opens a connection of
\* its own only after a handshake failed ahead of it.
C3_ConnectIsSerialized ==
  /\ \A o \in Origin :
       /\ Cardinality(Handshakes(o)) <= 1
       /\ Handshakes(o) # {} => connectionLock[o].locked
  /\ \A r \in Req :
       /\ req[r].handed # None =>
            /\ req[r].socket = req[r].handed
            /\ req[r].opened = None
            /\ req[r].waited
            /\ req[r].handed \in SocketIds
            /\ sockets[req[r].handed].origin = req[r].origin
            /\ \A q \in Req : req[q].opened = req[r].handed => q # r
       /\ (req[r].waited /\ req[r].pc \in {"connecting", "h2wait", "h1wait"}
             /\ req[r].lockErr = None) =>
            req[r].handed # None

\* C3 witness: a caller that waited has been handed the socket of another
\* caller that is still in flight
C3_Witness ==
  \E r, q \in Req :
    /\ r # q
    /\ req[r].waited /\ req[r].handed # None
    /\ req[q].opened = req[r].handed

\* C4: no socket has two HTTP/1 requests in flight at once.
C4_OneRequestPerSocket ==
  \A id \in SocketIds : Cardinality(Users(id)) <= 1

\* C5: a negotiated socket is the transport of at most one session or
\* request, is not taken as a transport once destroyed, and is not left open
\* without an owner.
C5_SocketUsedOnce ==
  \A id \in SocketIds :
    /\ Cardinality(sockets[id].owners) <= 1
    /\ ~sockets[id].usedDestroyed
    /\ sockets[id].owners = {} => sockets[id].destroyed

\* C6: a caller that waited on the lock while the handshake ahead of it
\* failed goes nowhere but to a failure with that same error.
C6_WaitersFailWithSameError ==
  \A r \in Req :
    req[r].lockErr # None =>
      /\ req[r].pc \in {"waitLock", "failed"}
      /\ req[r].pc = "failed" => req[r].err = req[r].lockErr

\* a request that negotiates leaves the protocol of its socket as an unexpired
\* entry in the ALPN cache of its context
NegotiationIsCached ==
  \A r \in Req :
    (req[r].pc \in {"connecting", "waitLock"} /\ req'[r].socket # None) =>
      FreshProtocol(alpnCache'[req[r].ctx], req[r].origin) =
        ProtocolOf(sockets'[req'[r].socket].alpnProtocol)

\* a request that starts while the ALPN cache of its context holds an
\* unexpired entry for its origin is dispatched with that protocol at once: it
\* takes no lock, opens no TLS connection and gets no socket
CachedIsUsed ==
  \A r \in Req :
    (req[r].pc = "idle" /\ req'[r].pc # "idle"
       /\ FreshProtocol(alpnCache[req'[r].ctx], req'[r].origin) # NoProtocol) =>
      /\ req'[r].pc \in {"h2wait", "h1wait", "failed"}
      /\ req'[r].pc \in {"h2wait", "h1wait"} =>
           /\ req'[r].protocol = FreshProtocol(alpnCache[req'[r].ctx], req'[r].origin)
           /\ req'[r].socket = None
      /\ Len(sockets') = Len(sockets)
      /\ connectionLock' = connectionLock

\* C7: once a request has negotiated a protocol the ALPN cache of its context
\* holds it, and every request that starts while the cache holds an unexpired
\* entry for its origin is dispatched with the cached protocol and opens no
\* TLS connection.
C7_CachedProtocolSkipsNegotiation == [][NegotiationIsCached /\ CachedIsUsed]_vars

\* C7 witness: a request to the https origin found the protocol cached and has
\* its stream open without a socket of its own
C7_Witness ==
  \E r \in Req :
    /\ req[r].hit = ALPN_HTTP2
    /\ Scheme(req[r].origin) = "https:"
    /\ req[r].pc = "h2wait"
    /\ req[r].socket = None

\* the protocols an origin can have in an ALPN cache: seeded for its scheme, or
\* that of a socket negotiated with it
KnownProtocols(o) ==
  IF Scheme(o) = "http:" THEN {ALPN_HTTP1_1}
  ELSE IF Scheme(o) = "http2:" THEN {ALPN_HTTP2C}
  ELSE {ProtocolOf(sockets[id].alpnProtocol) : id \in {i \in SocketIds : sockets[i].origin = o}}

\* C8: a lookup in an ALPN cache returns a protocol only from an entry of the
\* origin that is not older than the TTL and holds a protocol negotiated with
\* or seeded for the origin; an expired entry is a miss, and a request whose
\* lookup met no unexpired entry does not get a protocol out of the cache.
C8_NoExpiredEntryReturned ==
  /\ \A c \in Ctx, o \in Origin :
       LET g == LRUGet(alpnCache[c], o) IN
       /\ g.value # NoProtocol =>
            /\ \E i \in 1..Len(alpnCache[c]) :
                 /\ alpnCache[c][i].key = o
                 /\ alpnCache[c][i].age <= AlpnCacheTTL
                 /\ alpnCache[c][i].value = g.value
            /\ g.value \in KnownProtocols(o)
       /\ StaleEntry(alpnCache[c], o) =>
            /\ g.value = NoProtocol
            /\ ~StaleEntry(g.cache, o)
  /\ \A r \in Req :
       (req[r].pc \in {"h2wait", "h1wait", "waitLock", "connecting"}
          /\ req[r].hit = NoProtocol /\ Scheme(req[r].origin) = "https:") =>
         (req[r].protocol # NoProtocol => req[r].socket # None)

\* C8 witness: a request to the https origin met an expired entry and
\* negotiates again
C8_Witness ==
  \E r \in Req :
    /\ req[r].sawStale
    /\ req[r].hit = NoProtocol
    /\ req[r].pc \in {"connecting", "waitLock"}

\* C9: a request is dispatched with the protocol its own context negotiates
\* and over a socket and session of its own context; a context restricted to
\* http/1.1 gets HTTP/1.1 responses only.
C9_ContextsIsolated ==
  \A r \in Req :
    /\ (req[r].pc \in {"h2wait", "h1wait"} /\ Scheme(req[r].origin) = "https:") =>
         /\ req[r].protocol = ProtocolOf(Negotiate(alpnProtocols(req[r].ctx), req[r].origin))
         /\ req[r].socket # None => sockets[req[r].socket].ctx = req[r].ctx
    /\ req[r].pc = "h2wait" => sessions[req[r].session].ctx = req[r].ctx
    /\ (req[r].pc = "done" /\ alpnProtocols(req[r].ctx) = <<ALPN_HTTP1_1>>) =>
         req[r].httpVersion = "1.1"

\* the reset() calls that resolved with no request of the context in flight
\* when they were made and none started since
QuietResets ==
  {i \in 1..Len(resets) :
     /\ resets[i].resolved
     /\ resets[i].idle
     /\ resets[i].started = Cardinality(Started(resets[i].ctx))}

\* C10: after such a reset() the session cache and the ALPN cache of the
\* context are empty, its agents are gone, none of its sessions is open and
\* none of its sockets is open.
C10_NothingOpenAfterReset ==
  \A i \in QuietResets :
    LET c == resets[i].ctx IN
    /\ \A o \in Origin : sessionCache[c][o] = None
    /\ alpnCache[c] = <<>>
    /\ h1[c] = [httpAgent |-> FALSE, httpsAgent |-> FALSE]
    /\ \A s \in SessionIds : sessions[s].ctx = c => sessions[s].state # "open"
    /\ \A id \in SocketIds :
         (sockets[id].ctx = c /\ ~sockets[id].destroyed) =>
           \E s \in SessionIds :
             sessions[s].socket = id /\ sessions[s].state \in {"closed", "destroyed"}

\* C11: a reset() of a context that was reset already, with no request
\* started since, changes nothing and can resolve; and once a reset() has
\* resolved, a request that was in flight when it was called and has settled
\* since has left no open session behind.
C11_ResetIdempotentAndSafeInFlight ==
  \A i \in 1..Len(resets) :
    /\ resets[i].again => ~resets[i].changed /\ ~resets[i].hung /\ resets[i].wait = {}
    /\ resets[i].resolved =>
         \A r \in resets[i].inflight :
           (req[r].pc \in {"done", "failed"} /\ req[r].created # None) =>
             sessions[req[r].created].state # "open"

\* C12: every reset() that is called resolves in the end.
C12_ResetResolves ==
  \A i \in 1..MaxReset :
    (Len(resets) >= i) ~> (Len(resets) >= i /\ resets[i].resolved)

\* C13: a request whose signal fired before it was dispatched to a transport
\* - before fetch() was called, or while it waited for the connection lock or
\* the handshake - fails with an AbortError once it gets there, and no session
\* is connected for it.
C13_AbortedBeforeDispatchOpensNothing ==
  \A r \in Req :
    (req[r].abortedAt \in {"idle", "waitLock", "connecting"}
       /\ req[r].pc \notin {"idle", "waitLock", "connecting"}) =>
      /\ req[r].pc = "failed"
      /\ req[r].err = AbortError
      /\ req[r].created = None

\* C14: when the signal fires while an HTTP/2 request waits for its response
\* headers, the request has failed with an AbortError, its stream was closed
\* with CANCEL, and it stays failed: no response is delivered for it.
C14_AbortBeforeHeadersCancelsStream ==
  \A r \in Req :
    req[r].abortedAt = "h2wait" =>
      /\ req[r].pc = "failed"
      /\ req[r].err = AbortError
      /\ req[r].cancelled

\* C15: when the signal fired while the body of a delivered response had not
\* ended, a read of that body - pending then or started later - fails with an
\* AbortError: it neither completes, nor hangs, nor fails with another error.
C15_ReadAfterAbortFailsWithAbortError ==
  \A r \in Req :
    req[r].abortedAt \in {"h2body", "h1body"} =>
      req[r].read \in {"none", "pending", "AbortError"}

\* C16: when the signal fired between the delivery of the response headers and
\* the end of the body, the transport under the response was released: the
\* HTTP/2 stream was closed with CANCEL, the socket of the HTTP/1 response was
\* destroyed.
C16_AbortInBodyReleasesTransport ==
  \A r \in Req :
    req[r].abortedAt \in {"h2body", "h1body"} =>
      /\ req[r].cancelled
      /\ req[r].socket # None => sockets[req[r].socket].destroyed

\* C17: when the signal fired while an HTTP/1 request was waiting for its
\* response, the request has failed with a cancellation error and its socket is
\* destroyed.
C17_AbortDuringH1RequestDestroysSocket ==
  \A r \in Req :
    req[r].abortedAt = "h1wait" =>
      /\ req[r].pc = "failed"
      /\ req[r].err \in {AbortError, PlatformAbortError}
      /\ req[r].cancelled
      /\ \A k \in 1..Len(sockets) :
           [kind |-> "h1", id |-> r] \in sockets[k].owners => sockets[k].destroyed

\* C18: when the signal fired while the request was in its TLS/ALPN handshake,
\* or waiting on the connection lock for the handshake of another request, the
\* request has failed with an AbortError: it does not wait for the handshake.
C18_AbortDuringHandshakeFailsAtOnce ==
  \A r \in Req :
    req[r].abortedAt \in {"connecting", "waitLock"} =>
      /\ req[r].pc = "failed"
      /\ req[r].err = AbortError

\* C19: a fetch that has finished - its body ended or failed, or the fetch
\* rejected - has left no abort listener subscribed on the signal.
C19_NoListenerAfterFetchFinished ==
  \A r \in Req :
    req[r].pc \in {"done", "failed"} => req[r].listeners = {}

\* C20: on a followed redirect the listeners of the hop before are removed
\* when the next hop is dispatched, and the next hop observes the signal: when
\* the signal fired while the redirected hop was waiting for its response, the
\* fetch has failed with an AbortError and the hop's request was cancelled.
C20_RedirectedHopObservesSignal ==
  \A r \in Req :
    req[r].counter > 0 =>
      /\ req[r].pc \in {"waitLock", "connecting"} => req[r].listeners = {}
      /\ req[r].abortedAt \in {"h2wait", "h1wait"} =>
           /\ req[r].pc = "failed"
           /\ req[r].err = AbortError
           /\ req[r].cancelled

\* C21: a fetch with redirect 'follow' and the option follow = n makes at most
\* n + 1 dispatches: it follows at most n redirects.
C21_FollowLimitBoundsDispatches ==
  \A r \in Req :
    \A n \in req[r].follow :
      req[r].redirect = "follow" => req[r].dispatches <= n + 1

\* C22: with redirect 'manual' a response with a redirect status is returned
\* after one dispatch, with that status, with its location header resolved
\* against the request URL to an absolute one, and with redirected = false.
C22_ManualReturnsRedirect ==
  \A r \in Req :
    (req[r].redirect = "manual" /\ req[r].response # NoResponse) =>
      /\ req[r].dispatches = 1
      /\ req[r].response.counter = 0
      /\ req[r].response.raw = NoLocation => req[r].response.location = NoLocation
      /\ req[r].response.raw = Relative => req[r].response.location = req[r].origin
      /\ req[r].response.raw \in Origin =>
           req[r].response.location = req[r].response.raw

\* a 'manual' fetch has got a redirect with a relative location back
C22_Witness ==
  \E r \in Req :
    /\ req[r].redirect = "manual"
    /\ req[r].response.status \in RedirectStatus
    /\ req[r].response.raw = Relative
    /\ req[r].response.location = "https://a"
    /\ req[r].pc \in {"h2body", "done"}

\* C23: with redirect 'error' a response with a redirect status makes the
\* fetch reject with a FetchError of type 'no-redirect': the fetch has made
\* one dispatch and has returned no response.
C23_ErrorModeRejectsRedirect ==
  \A r \in Req :
    (req[r].redirect = "error" /\ req[r].via.status \in RedirectStatus) =>
      /\ req[r].pc = "failed"
      /\ req[r].err = FetchError
      /\ req[r].type = "no-redirect"
      /\ req[r].dispatches = 1
      /\ req[r].response = NoResponse

\* a fetch with redirect 'error' was answered with a redirect
C23_Witness ==
  \E r \in Req :
    /\ req[r].redirect = "error"
    /\ req[r].via.status \in RedirectStatus
    /\ req[r].type = "no-redirect"

C25_StreamBodyRedirect ==
  \A r \in Req :
    (req[r].redirect = "follow" /\ req[r].via.status \in RedirectStatus
       /\ req[r].via.location # NoLocation /\ req[r].via.body = "stream") =>
      IF req[r].via.status # 303
      THEN /\ req[r].pc = "failed"
           /\ req[r].err = FetchError
           /\ req[r].type = "unsupported-redirect"
           /\ req[r].dispatches = 1
      ELSE /\ req[r].counter > 0
           /\ req[r].method = "GET"
           /\ req[r].body = "none"

\* C26: the request dispatched for a followed redirect carries the counter of
\* the hop before plus one, and the transport sees with it the compress
\* setting and the signal the caller gave in the options of fetch().
C26_RedirectedHopInheritsOptions ==
  \A r \in Req :
    (req[r].counter > 0 /\ ~req[r].viaRequest /\ req[r].sent # NoSent) =>
      /\ req[r].dispatches = req[r].counter + 1
      /\ req[r].sent.compress = (req[r].compress # {FALSE})
      /\ req[r].sent.signal = (req[r].signal # "none")

\* the pushed streams there are: <<session, index>>
PushedStreams ==
  {x \in SessionIds \X (1..MaxPush) : x[2] <= Len(sessions[x[1]].pushed)}

Pushed(x) == sessions[x[1]].pushed[x[2]]

HeadersArrived(s, i) ==
  /\ s \in SessionIds
  /\ i \in 1..Len(sessions[s].pushed)
  /\ sessions[s].pushed[i].state = "headers"

\* the i-th pushed stream of session s was consumed by its handler, or closed
\* with NGHTTP2_CANCEL
ConsumedOrCancelled(s, i) ==
  /\ s \in SessionIds
  /\ i \in 1..Len(sessions[s].pushed)
  /\ \/ sessions[s].pushed[i].consumed
     \/ sessions[s].pushed[i].rstCode = NGHTTP2_CANCEL

\* C28: every pushed stream whose response headers arrived is in the end consumed
\* by its handler or closed with NGHTTP2_CANCEL by its idle timer, and a stream
\* that was consumed is not cancelled by the timer: it has no timer and keeps
\* the code it ended with.
C28_PushedStreamConsumedOrEvicted ==
  /\ \A s \in Req, i \in 1..MaxPush :
       HeadersArrived(s, i) ~> ConsumedOrCancelled(s, i)
  /\ [](\A x \in PushedStreams :
         Pushed(x).consumed =>
           /\ ~Pushed(x).timer
           /\ Pushed(x).rstCode = NGHTTP2_NO_ERROR)

\* of two streams whose headers arrived, one was consumed and the other was
\* closed by its timer
C28_Witness ==
  \E x, y \in PushedStreams :
    /\ Pushed(x).consumed
    /\ Pushed(x).pushHandler # NoCall
    /\ ~Pushed(y).consumed
    /\ Pushed(y).status # 0
    /\ Pushed(y).rstCode = NGHTTP2_CANCEL

\* C29: the pushHandler registered on a context is invoked for every accepted
\* pushed stream whose response headers arrived, with the URL made of the
\* session's origin and the promised path and with a response that has the
\* status and the body stream of the pushed stream.
C29_PushHandlerInvokedWithResponse ==
  \A x \in PushedStreams :
    (~Pushed(x).rejected /\ Pushed(x).status # 0) =>
      Pushed(x).pushHandler =
        [url |-> PushUrl(sessions[x[1]].origin, Pushed(x).path),
         response |-> createResponse(Pushed(x).status, x[1], x[2])]

\* a step in which a pushed stream emits 'aborted', 'error' or 'frameError'
PushedStreamFails ==
  \E x \in PushedStreams :
    sessions'[x[1]].pushed[x[2]].logged # sessions[x[1]].pushed[x[2]].logged

\* C30: an abort, an error or a frame error of a pushed stream is logged and
\* nothing else: no request of any session is touched, no session changes its
\* state, and the session cache keeps its entries.
C30_PushedStreamErrorOnlyLogged ==
  [][PushedStreamFails =>
       /\ req' = req
       /\ sessionCache' = sessionCache
       /\ Len(sessions') = Len(sessions)
       /\ \A s \in SessionIds : sessions'[s].state = sessions[s].state]_vars

\* a pushed stream has failed on a cached, open session with a request in
\* flight, and the context has another open session with a request in flight
C30_Witness ==
  \E x \in PushedStreams, s \in SessionIds :
    /\ s # x[1]
    /\ Pushed(x).logged # {}
    /\ sessions[x[1]].state = "open"
    /\ sessions[s].state = "open"
    /\ sessionCache[sessions[x[1]].ctx][sessions[x[1]].origin] = x[1]
    /\ sessionCache[sessions[s].ctx][sessions[s].origin] = s
    /\ Streams(x[1]) # {}
    /\ Streams(s) # {}

\* the idle timer closes session s in this step
ClosedByIdleTimer(s) ==
  sessions[s].state = "open" /\ sessions'[s].state = "closed"

\* the 'close' event of session s is handled in this step
CloseHandled(s) ==
  sessions[s].state # "gone" /\ sessions'[s].state = "gone"

\* request r gets its stream on a session in this step
TakesSession(r) ==
  req'[r].session # None /\ req'[r].session # req[r].session

\* C31: the idle timer closes a session only when none of its request streams
\* is active; when the 'close' event of the session is handled the session is
\* out of the cache; and a request never gets its stream on a session that was
\* closed: it is given a session that is open.
C31_IdleSessionClosedAndReplaced ==
  [][/\ \A s \in SessionIds : ClosedByIdleTimer(s) => Streams(s) = {}
     /\ \A s \in SessionIds :
          CloseHandled(s) =>
            sessionCache'[sessions[s].ctx][sessions[s].origin] # s
     /\ \A r \in Req :
          TakesSession(r) => sessions'[req'[r].session].state = "open"]_vars

\* the error of session s is delivered to the caller of request r in this step
ErrorDelivered(r, s) ==
  req'[r].err = SessionErrorOf(s) /\ req[r].err # SessionErrorOf(s)

\* request r is given a session that has failed in this step
ReusesFailed(r) ==
  req'[r].err = ERR_HTTP2_INVALID_SESSION /\ req[r].err # ERR_HTTP2_INVALID_SESSION

\* C32: when the error of a failed session is delivered to a caller the session
\* is out of the session cache, and no later request is given the failed
\* session: a request that gets a stream gets it on an open session.
C32_FailedSessionLeavesCacheFirst ==
  [][/\ \A s \in SessionIds, r \in Req :
          ErrorDelivered(r, s) =>
            sessionCache'[sessions[s].ctx][sessions[s].origin] # s
     /\ \A r \in Req : ~ReusesFailed(r)
     /\ \A r \in Req :
          TakesSession(r) => sessions'[req'[r].session].state = "open"]_vars

\* a new session is put into the cache of context c under origin o in this step
Inserted(c, o) ==
  sessionCache'[c][o] # None /\ sessionCache'[c][o] # sessionCache[c][o]

\* C33: a new session is put into the cache under an origin only when the cache
\* holds no session for it: a session that was there before and is marked closed
\* has had its 'close' event handled, and is out of the cache, by then.
C33_ClosedSessionRemovedBeforeInsert ==
  [][\A c \in Ctx, o \in Origin :
       Inserted(c, o) => sessionCache[c][o] = None]_vars

\* C34: the bytes written to the wire as the body of a request whose body is a
\* string or a Buffer are the bytes of that body, on either transport.
C34_BodyWrittenAsGiven ==
  \A r \in Req :
    (req[r].pc \in {"h1wait", "h2wait"} /\ req[r].payload.kind \in {"string", "buffer"}) =>
      req[r].sent.wire = Bytes(req[r].payload)

\* C35: when the decoder of a response body has failed, onError was called and
\* the reader of the body gets an error: its read neither ends as if the body
\* were complete nor stays unsettled, whether it was started before the
\* failure or after it.
C35_DecodeErrorReachesReader ==
  \A r \in Req :
    req[r].decodeFailed =>
      /\ req[r].onError
      /\ req[r].read \notin {"ok", "hung", "pending"}

\* the class of the error the transport rejected with, as the catch block of
\* fetch() tests it with instanceof: the transport rejects a request whose
\* signal it saw fire with a RequestAbortedError; the errors of the TLS
\* connect, of a socket, of a session and of the platform are plain Errors
ErrorClass(err) ==
  IF err = AbortError THEN "RequestAbortedError" ELSE "Error"

\* the catch block of fetch(): what it throws for an error of the transport
Rethrown(class, err) ==
  IF class = "TypeError"
  THEN [name |-> "TypeError", type |-> "", error |-> err]
  ELSE IF class = "RequestAbortedError"
  THEN [name |-> "AbortError", type |-> "aborted", error |-> None]
  ELSE [name |-> "FetchError", type |-> "system", error |-> err]

\* the request was rejected by its transport
RejectedByTransport(r) ==
  /\ req[r].pc = "failed"
  /\ req[r].err \notin {None, FetchError}

\* the request was rejected because its signal fired while it was in flight
Cancellation(r) ==
  /\ RejectedByTransport(r)
  /\ req[r].cancelled
  /\ req[r].abortedAt \in {"h1wait", "h2wait"}

\* C36: what fetch() throws for a rejection of the transport follows the class
\* of the error: a RequestAbortedError becomes an AbortError, any other error
\* becomes a FetchError of type 'system' that carries the original; an
\* AbortError is thrown only when the signal has fired, and a request that was
\* cancelled by its signal is never reported as a 'system' error.
C36_TransportErrorsTranslatedByKind ==
  \A r \in Req :
    RejectedByTransport(r) =>
      LET thrown == Rethrown(ErrorClass(req[r].err), req[r].err) IN
      /\ thrown.name = "AbortError" => req[r].signal = "aborted"
      /\ thrown.name = "FetchError" =>
            thrown.type = "system" /\ thrown.error = req[r].err
      /\ Cancellation(r) => thrown.name = "AbortError"

\* protocol determination of request r fails in this step
DeterminationFails(r) ==
  /\ req[r].pc # "failed"
  /\ req'[r].pc = "failed"
  /\ req'[r].err \in {TLSErrorOf(r), UnsupportedProtocolError}

\* the origin has an entry in the ALPN cache of the context
HasEntry(cache, o) == IndexOf(cache, o) # 0

\* C37: a request whose protocol determination fails - unsupported scheme or
\* failed TLS connect - is rejected with that error; the step writes no ALPN
\* cache entry for the origin, adds no session, and leaves the origin's lock
\* free; the lock of an origin is held only while a handshake for it is under
\* way, so a later request can connect.
C37_FailedDeterminationLeavesNoTrace ==
  /\ [](\A o \in Origin :
         connectionLock[o].locked =>
           \E q \in Req : req[q].pc = "connecting" /\ req[q].origin = o)
  /\ [][\A r \in Req :
         DeterminationFails(r) =>
           /\ req'[r].err = IF req[r].pc = "connecting" THEN TLSErrorOf(r)
                             ELSE UnsupportedProtocolError
           /\ \A c \in Ctx :
                HasEntry(alpnCache'[c], req'[r].origin) =>
                  HasEntry(alpnCache[c], req'[r].origin)
           /\ sessions' = sessions
           /\ sessionCache' = sessionCache
           /\ req'[r].origin \in Origin => ~connectionLock'[req'[r].origin].locked]_vars

\* a handshake failed, an unsupported scheme was refused, and a later request
\* to the origin of the failed handshake has connected and got its response
C37_Witness ==
  \E r, q, u \in Req :
    /\ r < q
    /\ req[r].pc = "failed" /\ req[r].err = TLSErrorOf(r)
    /\ req[q].pc = "done" /\ req[q].origin = req[r].origin
    /\ req[u].pc = "failed" /\ req[u].err = UnsupportedProtocolError

\* request r is dispatched in this step with no socket passed along - its
\* protocol came from the ALPN cache or from the scheme - and makes a session
OpensSessionWithoutSocket(r) ==
  /\ req[r].pc = "idle"
  /\ req'[r].pc # "idle"
  /\ Len(sessions') = Len(sessions) + 1
  /\ req'[r].session = Len(sessions')

\* C38: a session made by a request that was handed no socket opens a
\* connection of its own: its transport is not a socket that an earlier
\* request of the context was handed.
C38_NewSessionOpensOwnConnection ==
  [][\A r \in Req :
       OpensSessionWithoutSocket(r) => sessions'[Len(sessions')].socket = None]_vars

\* the session is the one the cache of its context holds for its origin
IsCached(s) == sessionCache[sessions[s].ctx][sessions[s].origin] = s

\* the 'close' event of session s is handled in this step
ClosesInStep(s) ==
  /\ s \in 1..Len(sessions)
  /\ sessions[s].state # "gone"
  /\ sessions'[s].state = "gone"

\* C39: every open session of a context is the one its cache holds for the
\* origin, so that reset() reaches it; the 'close' event of a session leaves
\* the cache entry of every other session as it is.
C39_OpenSessionIsTheCachedOne ==
  /\ [](\A s \in 1..Len(sessions) : sessions[s].state = "open" => IsCached(s))
  /\ [][\A s \in 1..NumReq :
         ClosesInStep(s) =>
           \A c \in Ctx, o \in Origin :
             sessionCache[c][o] # s => sessionCache'[c][o] = sessionCache[c][o]]_vars

\* the stream of request r was opened and its promise is neither resolved nor
\* rejected
StreamOpenedUnsettled(r) == req[r].pc \in {"h2wait", "h2closed"}

\* C40: every HTTP/2 request whose stream was opened is resolved or rejected in
\* the end, whatever the peer does with the stream - response headers, or a
\* reset with any code - and whether the session fails or the signal fires.
C40_RequestPromiseSettles ==
  \A r \in Req :
    StreamOpenedUnsettled(r) ~> (req[r].pc \in {"done", "failed"})
====
